---- MODULE Spec2Model ----
(***************************************************************************)
(* miniScroll: the effect / compositor core of src/EffectsEngine           *)
(* (effects.py, runner.py), modelled as state machines.                    *)
(*                                                                         *)
(* Numbers.  Python floats are modelled as exact rationals [n, d] in       *)
(* lowest terms with d > 0; integers stay TLA+ integers.  A brightness     *)
(* that involves a square root (PacMan) is kept symbolically.              *)
(* Python lists and tuples are sequences; None is the empty optional <<>>  *)
(* and a present value v is <<v>>.                                         *)
(***************************************************************************)
EXTENDS Integers, Sequences, FiniteSets, TLC

VARIABLES
    effect,      \* the effect object driven by the test harness, runner or recorder
    prev,        \* the effect's state before the last operation on it
    frame,       \* what the last step() of `effect` returned
    lastOp,      \* the last operation: "init", "step", "reset", ...
    nsteps,      \* step() calls on `effect` since construction or the last reset()
    files,       \* the file system: filename -> saved container
    calls,       \* calls LayeredEffect.step made on its layers in the last tick
    emitted,     \* the frame each layer's step() returned in the last tick
    mirror,      \* the twin `effect` is compared with: a LayeredEffect holding the
                 \* same layers in reverse order, or the effect as first constructed
    mirrorFrame, \* what the last step() of `mirror` returned
    runner,      \* the EffectRunner: its configuration, loop position and counter
    display,     \* the set_pixel calls of the runner's last tick, in call order
    recorder,    \* the AnimationRecorder: frame list, loop position and counter
    player,      \* the BakedAnimation replaying the recorder's file (<<>> when absent)
    playFrame,   \* what the last step() of `player` returned
    playCount    \* step() calls on `player` since its construction

vars == <<effect, prev, frame, lastOp, nsteps, files, calls, emitted, mirror,
          mirrorFrame, runner, display, recorder, player, playFrame, playCount>>

(***************************************************************************)
(* Bounds of the model.                                                    *)
(***************************************************************************)
GridW == 3
GridH == 2
MaxSteps == 9
MaxTicks == 4
MaxLayers == 2
MaxRun == 6
MaxRecord == 4
MaxPlay == 5

(***************************************************************************)
(* Rational arithmetic (the model of Python float arithmetic).             *)
(***************************************************************************)
Abs(i) == IF i < 0 THEN -i ELSE i

Min(a, b) == IF a <= b THEN a ELSE b

Max(a, b) == IF a >= b THEN a ELSE b

RECURSIVE GCD(_, _)
GCD(a, b) == IF b = 0 THEN a ELSE GCD(b, a % b)

Q(n, d) ==
    LET g == GCD(Abs(n), Abs(d))
        s == IF d < 0 THEN -1 ELSE 1
    IN  [n |-> (s * n) \div g, d |-> (s * d) \div g]

QI(i) == [n |-> i, d |-> 1]

QAdd(a, b) == Q(a.n * b.d + b.n * a.d, a.d * b.d)

QSub(a, b) == Q(a.n * b.d - b.n * a.d, a.d * b.d)

QMul(a, b) == Q(a.n * b.n, a.d * b.d)

QLt(a, b) == a.n * b.d < b.n * a.d

QLe(a, b) == a.n * b.d <= b.n * a.d

QMax(a, b) == IF QLt(b, a) THEN a ELSE b

QMin(a, b) == IF QLt(b, a) THEN b ELSE a

QAbs(a) == [n |-> Abs(a.n), d |-> a.d]

QFloor(a) == a.n \div a.d

\* Python int(float): truncation toward zero.
QInt(a) == IF a.n >= 0 THEN a.n \div a.d ELSE -((-a.n) \div a.d)

\* Python round(float): to the nearest integer, ties to the even one.
QRound(a) ==
    LET f == QFloor(a)
        r == QSub(a, QI(f))
    IN  IF QLt(r, Q(1, 2)) THEN f
        ELSE IF QLt(Q(1, 2), r) THEN f + 1
        ELSE IF f % 2 = 0 THEN f ELSE f + 1

\* Python float % int for a positive modulus: the result is in [0, m).
QMod(a, m) == QSub(a, QI(m * QFloor(Q(a.n, a.d * m))))

(***************************************************************************)
(* Sequence helpers.                                                       *)
(***************************************************************************)
\* range(a, b + 1) as a sequence.
Range(a, b) == [i \in 1..Max(0, b - a + 1) |-> a + i - 1]

\* The pairs <<a, b>> of `for a in A: for b in B:` in iteration order.
Nested(A, B) ==
    [k \in 1..(Len(A) * Len(B)) |->
        <<A[((k - 1) \div Len(B)) + 1], B[((k - 1) % Len(B)) + 1]>>]

RECURSIVE Concat(_)
Concat(ss) == IF ss = <<>> THEN <<>> ELSE Head(ss) \o Concat(Tail(ss))

InGrid(x, y, w, h) == 0 <= x /\ x < w /\ 0 <= y /\ y < h

(***************************************************************************)
(* Frames.  A sample is <<x, y, b>>; a frame is a sequence of samples.     *)
(***************************************************************************)
Cells(w, h) == {<<x, y>> : x \in 0..(w - 1), y \in 0..(h - 1)}

\* The cells a frame names.
Keys(f) == {<<f[i][1], f[i][2]>> : i \in DOMAIN f}

\* dict(((x, y), b) for x, y, b in f): the brightness a frame gives a cell it
\* names is that of the last sample for the cell.
LastAt(f, c) ==
    LET hits == {i \in DOMAIN f : <<f[i][1], f[i][2]>> = c}
    IN  f[CHOOSE i \in hits : \A j \in hits : j <= i][3]

AsMap(f) == [c \in Keys(f) |-> LastAt(f, c)]

(***************************************************************************)
(* effects.py: BlendMode and blend.                                        *)
(***************************************************************************)
MAX == "max"
ADD == "add"
ALPHA_SOFT == "alpha_soft"
ALPHA_HARD == "alpha_hard"
OVERWRITE == "overwrite"

BlendMode == {MAX, ADD, ALPHA_SOFT, ALPHA_HARD, OVERWRITE}

blend_max_falls_through(dst, src, mode) ==
    IF mode = ADD THEN QAdd(dst, src)
    ELSE IF mode = ALPHA_SOFT THEN QAdd(QMul(dst, Q(3, 4)), QMul(src, Q(1, 4)))
    ELSE IF mode = ALPHA_HARD THEN QAdd(QMul(dst, Q(2, 5)), QMul(src, Q(3, 5)))
    ELSE src

\* A blend() whose ADD saturates at 1.
blend_add_saturating(dst, src, mode) ==
    IF mode = MAX THEN QMax(dst, src)
    ELSE IF mode = ADD THEN QMin(QI(1), QAdd(dst, src))
    ELSE IF mode = ALPHA_SOFT THEN QAdd(QMul(dst, Q(3, 4)), QMul(src, Q(1, 4)))
    ELSE IF mode = ALPHA_HARD THEN QAdd(QMul(dst, Q(2, 5)), QMul(src, Q(3, 5)))
    ELSE src

\* Core/blend.py: blend.
Core_blend(dst, src, mode) ==
    IF mode = MAX THEN QMax(dst, src)
    ELSE IF mode = ADD THEN QAdd(dst, src)
    ELSE IF mode = ALPHA_SOFT THEN QAdd(QMul(dst, Q(3, 4)), QMul(src, Q(1, 4)))
    ELSE IF mode = ALPHA_HARD THEN QAdd(QMul(dst, Q(2, 5)), QMul(src, Q(3, 5)))
    ELSE src

blend(dst, src, mode) ==
    IF mode = MAX THEN QMax(dst, src)
    ELSE IF mode = ADD THEN QAdd(dst, src)
    ELSE IF mode = ALPHA_SOFT THEN QAdd(QMul(dst, Q(3, 4)), QMul(src, Q(1, 4)))
    ELSE IF mode = ALPHA_HARD THEN QAdd(QMul(dst, Q(2, 5)), QMul(src, Q(3, 5)))
    ELSE src

(***************************************************************************)
(* json.dump / json.load as used by AnimationRecorder.save and             *)
(* BakedAnimation.reset.  A JSON document is a tree: [num |-> v] for a     *)
(* number, [arr |-> <<...>>] for an array, [obj |-> record] for an object. *)
(* Python tuples and lists are both written as arrays; arrays are read     *)
(* back as lists; numbers are written with repr() and read back exactly.   *)
(***************************************************************************)
json_sample(p) == [arr |-> [i \in DOMAIN p |-> [num |-> p[i]]]]

json_frame(f) == [arr |-> [i \in DOMAIN f |-> json_sample(f[i])]]

json_frames(fs) == [arr |-> [i \in DOMAIN fs |-> json_frame(fs[i])]]

json_dump(data) ==
    [obj |-> [version     |-> [num |-> data.version],
              width       |-> [num |-> data.width],
              height      |-> [num |-> data.height],
              fps         |-> [num |-> data.fps],
              frame_count |-> [num |-> data.frame_count],
              frames      |-> json_frames(data.frames)]]

py_sample(j) == [i \in DOMAIN j.arr |-> j.arr[i].num]

py_frame(j) == [i \in DOMAIN j.arr |-> py_sample(j.arr[i])]

py_frames(j) == [i \in DOMAIN j.arr |-> py_frame(j.arr[i])]

json_load(doc) ==
    [version     |-> doc.obj.version.num,
     width       |-> doc.obj.width.num,
     height      |-> doc.obj.height.num,
     fps         |-> doc.obj.fps.num,
     frame_count |-> doc.obj.frame_count.num,
     frames      |-> py_frames(doc.obj.frames)]

(***************************************************************************)
(* What step() hands back: the effect's new state, the returned frame and  *)
(* the exception it raised ("" when it returned normally); calls and       *)
(* emitted record what a LayeredEffect did with its layers in the call.    *)
(***************************************************************************)
Ret(e, f) ==
    [eff |-> e, frame |-> f, exc |-> "", calls |-> <<>>, emitted |-> <<>>]

Raise(e, x) ==
    [eff |-> e, frame |-> <<>>, exc |-> x, calls |-> <<>>, emitted |-> <<>>]

(***************************************************************************)
(* effects.py: BakedAnimation.                                             *)
(***************************************************************************)
BakedAnimation_reset(e) ==
    LET data == json_load(files[e.filename])
    IN  [e EXCEPT !.frames = data.frames, !.index = 0, !.done = FALSE]

BakedAnimation_init(filename, loop) ==
    BakedAnimation_reset([kind |-> "BakedAnimation", filename |-> filename,
                          loop |-> loop, frames |-> <<>>, index |-> 0,
                          done |-> FALSE])

BakedAnimation_step_late_done(e) ==
    IF e.done THEN Ret(e, <<>>)
    ELSE IF e.index >= Len(e.frames)
         THEN IF e.loop
              THEN Ret([e EXCEPT !.index = 1], e.frames[1])
              ELSE Ret([e EXCEPT !.done = TRUE], <<>>)
         ELSE Ret([e EXCEPT !.index = e.index + 1], e.frames[e.index + 1])

BakedAnimation_step_no_wrap(e) ==
    IF e.done THEN Ret(e, <<>>)
    ELSE IF e.index >= Len(e.frames) THEN Raise(e, "IndexError")
    ELSE LET f == e.frames[e.index + 1]
             i == e.index + 1
         IN  IF i >= Len(e.frames)
             THEN Ret([e EXCEPT !.index = i, !.done = TRUE], f)
             ELSE Ret([e EXCEPT !.index = i], f)

BakedAnimation_step(e) ==
    IF e.done THEN Ret(e, <<>>)
    ELSE IF e.index >= Len(e.frames) THEN Raise(e, "IndexError")
    ELSE LET f == e.frames[e.index + 1]
             i == e.index + 1
         IN  IF i >= Len(e.frames)
             THEN IF e.loop
                  THEN Ret([e EXCEPT !.index = 0], f)
                  ELSE Ret([e EXCEPT !.index = i, !.done = TRUE], f)
             ELSE Ret([e EXCEPT !.index = i], f)

(***************************************************************************)
(* effects.py: ZigZagSweep.  trail is a deque(maxlen=trail_length).        *)
(***************************************************************************)
appendleft(trail, item, maxlen) ==
    LET t == <<item>> \o trail
    IN  SubSeq(t, 1, Min(Len(t), maxlen))

\* max(0.05, (1.0 - i / length) ** 2), the falloff along a trail.
falloff(i, length) ==
    LET t == Q(length - i, length)
    IN  QMax(Q(1, 20), QMul(t, t))

ZigZagSweep_reset(e) ==
    [e EXCEPT !.w = e.width, !.h = e.height, !.row = 0, !.col = 0,
              !.x_direction = 1, !.y_direction = 1, !.trail = <<>>,
              !.done = FALSE]

ZigZagSweep_init(speed, trail_length, bounce, width, height) ==
    ZigZagSweep_reset([kind |-> "ZigZagSweep", width |-> width,
                       height |-> height, speed |-> speed,
                       trail_length |-> trail_length, bounce |-> bounce,
                       w |-> 0, h |-> 0, row |-> 0, col |-> 0,
                       x_direction |-> 0, y_direction |-> 0, trail |-> <<>>,
                       done |-> FALSE])

\* The move with the horizontal direction kept at an edge.
ZigZagSweep_move_same_direction(e) ==
    LET col1 == e.col + e.x_direction * e.speed
    IN  IF col1 < 0 \/ col1 >= e.w
        THEN LET col2 == Max(0, Min(e.w - 1, col1))
                 row1 == e.row + e.y_direction
             IN  IF row1 < 0 \/ row1 >= e.h
                 THEN IF e.bounce
                      THEN [e EXCEPT !.col = col2,
                                     !.row = Max(0, Min(e.h - 1, row1)),
                                     !.y_direction = -e.y_direction]
                      ELSE [e EXCEPT !.col = col2, !.row = row1, !.done = TRUE]
                 ELSE [e EXCEPT !.col = col2, !.row = row1]
        ELSE [e EXCEPT !.col = col1]

ZigZagSweep_move(e) ==
    LET col1 == e.col + e.x_direction * e.speed
    IN  IF col1 < 0 \/ col1 >= e.w
        THEN LET col2 == Max(0, Min(e.w - 1, col1))
                 row1 == e.row + e.y_direction
                 xd   == -e.x_direction
             IN  IF row1 < 0 \/ row1 >= e.h
                 THEN IF e.bounce
                      THEN [e EXCEPT !.col = col2, !.x_direction = xd,
                                     !.row = Max(0, Min(e.h - 1, row1)),
                                     !.y_direction = -e.y_direction]
                      ELSE [e EXCEPT !.col = col2, !.x_direction = xd,
                                     !.row = row1, !.done = TRUE]
                 ELSE [e EXCEPT !.col = col2, !.x_direction = xd, !.row = row1]
        ELSE [e EXCEPT !.col = col1]

ZigZagSweep_emit(e) ==
    LET m  == ZigZagSweep_move(e)
        e1 == [m EXCEPT !.trail = appendleft(m.trail, <<m.col, m.row>>,
                                             m.trail_length)]
    IN  Ret(e1, [i \in DOMAIN e1.trail |->
                    <<e1.trail[i][1], e1.trail[i][2],
                      falloff(i - 1, e1.trail_length)>>])

ZigZagSweep_step_free_running(e) == ZigZagSweep_emit(e)

ZigZagSweep_step(e) == IF e.done THEN Ret(e, <<>>) ELSE ZigZagSweep_emit(e)

(***************************************************************************)
(* effects.py: TextScroller.  The font is the collaborator that maps a     *)
(* character to its rows of bits; characters it lacks are skipped.         *)
(***************************************************************************)
Font ==
    [c \in {"I", "L"} |->
        IF c = "I" THEN << <<1>>, <<1>> >> ELSE << <<1, 0>>, <<1, 1>> >>]

\* The set pixels of one glyph, rows outermost, shifted right by x_offset.
glyph_pixels(char_data, x_offset, brightness) ==
    LET rows == Concat([r \in DOMAIN char_data |->
                    [c \in DOMAIN char_data[r] |-> <<r - 1, c - 1>>]])
        lit  == SelectSeq(rows, LAMBDA rc : char_data[rc[1] + 1][rc[2] + 1] /= 0)
    IN  [i \in DOMAIN lit |-> <<x_offset + lit[i][2], lit[i][1], brightness>>]

RECURSIVE render_chars(_, _, _, _)
render_chars(text, x_offset, spacing, brightness) ==
    IF text = <<>> THEN [pixels |-> <<>>, x_offset |-> x_offset]
    ELSE IF Head(text) \notin DOMAIN Font
         THEN render_chars(Tail(text), x_offset, spacing, brightness)
         ELSE LET char_data  == Font[Head(text)]
                  char_width == IF char_data /= <<>> THEN Len(char_data[1]) ELSE 0
                  rest == render_chars(Tail(text), x_offset + char_width + spacing,
                                       spacing, brightness)
              IN  [pixels   |-> glyph_pixels(char_data, x_offset, brightness)
                                \o rest.pixels,
                   x_offset |-> rest.x_offset]

render_from_font_data(text, spacing, brightness) ==
    LET r == render_chars(text, 0, spacing, brightness)
    IN  [pixels     |-> r.pixels,
         text_width |-> IF r.x_offset > 0 THEN r.x_offset - spacing ELSE 0]

TextScroller_reset(e) == [e EXCEPT !.scroll_offset = QI(0), !.done = FALSE]

TextScroller_init(text, x_start, y_pos, speed, spacing, b, loop, width, height) ==
    LET r == render_from_font_data(text, spacing, b)
    IN  TextScroller_reset(
            [kind |-> "TextScroller", width |-> width, height |-> height,
             text |-> text, y_pos |-> y_pos, speed |-> speed,
             letter_spacing |-> spacing, brightness |-> b,
             loop |-> loop,
             x_start |-> IF x_start /= <<>> THEN x_start[1] ELSE width,
             text_pixels |-> r.pixels, text_width |-> r.text_width,
             scroll_offset |-> QI(0), done |-> FALSE])

\* Every text pixel at its scrolled position, the viewport test left out.
TextScroller_visible_unclipped(e) ==
    [i \in DOMAIN e.text_pixels |->
        <<QInt(QSub(QI(e.x_start + e.text_pixels[i][1]), e.scroll_offset)),
          e.y_pos + e.text_pixels[i][2], e.text_pixels[i][3]>>]

TextScroller_visible(e) ==
    LET moved == [i \in DOMAIN e.text_pixels |->
                    <<QInt(QSub(QI(e.x_start + e.text_pixels[i][1]),
                                e.scroll_offset)),
                      e.y_pos + e.text_pixels[i][2],
                      e.text_pixels[i][3]>>]
    IN  SelectSeq(moved, LAMBDA p : InGrid(p[1], p[2], e.width, e.height))

\* Scrolling counted as complete already when the offset equals the bound.
TextScroller_advance_at_edge(e) ==
    LET off == QAdd(e.scroll_offset, e.speed)
    IN  IF QLt(QI(0), e.speed) /\ QLe(QI(e.x_start + e.text_width), off)
        THEN IF e.loop
             THEN [e EXCEPT !.scroll_offset = QI(0)]
             ELSE [e EXCEPT !.scroll_offset = off, !.done = TRUE]
        ELSE [e EXCEPT !.scroll_offset = off]

\* The loop flag ignored: the scroller finishes like a one-shot one.
TextScroller_advance_one_shot(e) ==
    LET off == QAdd(e.scroll_offset, e.speed)
    IN  IF QLt(QI(0), e.speed) /\ QLt(QI(e.x_start + e.text_width), off)
        THEN [e EXCEPT !.scroll_offset = off, !.done = TRUE]
        ELSE [e EXCEPT !.scroll_offset = off]

TextScroller_advance(e) ==
    LET off == QAdd(e.scroll_offset, e.speed)
    IN  IF QLt(QI(0), e.speed) /\ QLt(QI(e.x_start + e.text_width), off)
        THEN IF e.loop
             THEN [e EXCEPT !.scroll_offset = QI(0)]
             ELSE [e EXCEPT !.scroll_offset = off, !.done = TRUE]
        ELSE [e EXCEPT !.scroll_offset = off]

TextScroller_step(e) ==
    IF e.done THEN Ret(e, <<>>)
    ELSE Ret(TextScroller_advance(e), TextScroller_visible(e))

(***************************************************************************)
(* effects.py: PacMan.  The brightness radius - dist + 0.6 is kept as      *)
(* [base, sqrt]: base - sqrt(sqrt), with base = radius + 0.6 and sqrt the  *)
(* squared distance.  The mouth is modelled for the configurations the     *)
(* model enumerates: chomp_speed = 0 (phase stays 0, so sin(phase) = 0,    *)
(* mouth_open = 0.5 and mouth_angle = pi / 4.4) and a heading of +x        *)
(* (dy = 0, dx > 0, so dir_angle = 0 and rel = atan2(dy, dx)).  Then       *)
(* |rel| < mouth_angle iff the offset is (0, 0) or lies in the wedge       *)
(* |dy| < tan(pi / 4.4) * dx; tan(pi / 4.4) = 0.86650493..., and no ratio  *)
(* of offsets with the denominators used here lies between that and        *)
(* 8665 / 10000.                                                           *)
(***************************************************************************)
PacMan_reset(e) ==
    [e EXCEPT !.x = e.start_x, !.y = e.start_y, !.phase = QI(0), !.done = FALSE]

PacMan_init(x, y, x_speed, dy, radius, chomp_speed, wrap, width, height) ==
    PacMan_reset([kind |-> "PacMan", width |-> width, height |-> height,
                  start_x |-> x, start_y |-> y, dx |-> x_speed, dy |-> dy,
                  radius |-> radius, chomp_speed |-> chomp_speed, wrap |-> wrap,
                  x |-> x, y |-> y, phase |-> QI(0), done |-> FALSE])

PacMan_mouth(ddx, ddy) ==
    \/ ddx.n = 0 /\ ddy.n = 0
    \/ QLt(QI(0), ddx) /\ QLt(QAbs(ddy), QMul(Q(8665, 10000), ddx))

PacMan_pixels(e) ==
    LET xmin == QInt(QSub(QSub(e.x, e.radius), QI(1)))
        xmax == QInt(QAdd(QAdd(e.x, e.radius), QI(1)))
        ymin == QInt(QSub(QSub(e.y, e.radius), QI(1)))
        ymax == QInt(QAdd(QAdd(e.y, e.radius), QI(1)))
        box  == Nested(Range(xmin, xmax), Range(ymin, ymax))
        ddx(p) == QSub(Q(2 * p[1] + 1, 2), e.x)
        ddy(p) == QSub(Q(2 * p[2] + 1, 2), e.y)
        d2(p)  == QAdd(QMul(ddx(p), ddx(p)), QMul(ddy(p), ddy(p)))
        body == SelectSeq(box, LAMBDA p :
                    /\ InGrid(p[1], p[2], e.width, e.height)
                    /\ QLe(d2(p), QMul(e.radius, e.radius))
                    /\ ~PacMan_mouth(ddx(p), ddy(p)))
    IN  [i \in DOMAIN body |->
            <<body[i][1], body[i][2],
              [base |-> QAdd(e.radius, Q(3, 5)), sqrt |-> d2(body[i])]>>]

PacMan_move(e) ==
    LET x1 == QAdd(e.x, e.dx)
        y1 == QAdd(e.y, e.dy)
    IN  IF e.wrap
        THEN [e EXCEPT !.x = QMod(x1, e.width), !.y = QMod(y1, e.height)]
        ELSE IF ~(/\ QLe(QI(0), x1) /\ QLt(x1, QI(e.width))
                  /\ QLe(QI(0), y1) /\ QLt(y1, QI(e.height)))
             THEN [e EXCEPT !.x = x1, !.y = y1, !.done = TRUE]
             ELSE [e EXCEPT !.x = x1, !.y = y1]

PacMan_body(e) ==
    LET m == PacMan_move(e)
    IN  IF m.done THEN Ret(m, <<>>)
        ELSE LET e1 == [m EXCEPT !.phase = QAdd(m.phase, m.chomp_speed)]
             IN  Ret(e1, PacMan_pixels(e1))

PacMan_step(e) == IF e.done THEN Ret(e, <<>>) ELSE PacMan_body(e)

(***************************************************************************)
(* effects.py: Ghost.  step() does not look at the done flag.              *)
(***************************************************************************)
Ghost_reset(e) == [e EXCEPT !.x = e.start_x, !.phase = 0, !.done = FALSE]

Ghost_init(x, y, x_speed, width, height) ==
    Ghost_reset([kind |-> "Ghost", width |-> width, height |-> height,
                 start_x |-> x, y |-> y, x_speed |-> x_speed,
                 x |-> x, phase |-> 0, done |-> FALSE])

Ghost_pixels(e) ==
    LET cx == QRound(e.x)
        cy == QRound(e.y)
        head == SelectSeq(Nested(Range(-2, 2), Range(-2, 0)), LAMBDA d :
                    /\ d[1] * d[1] + d[2] * d[2] <= 4
                    /\ InGrid(cx + d[1], cy + d[2], e.width, e.height))
        body == SelectSeq(Nested(Range(-2, 2), Range(1, 3)), LAMBDA d :
                    InGrid(cx + d[1], cy + d[2], e.width, e.height))
        feet == SelectSeq(<< <<0, -2>>, <<1, 0>>, <<2, 2>> >>, LAMBDA d :
                    /\ (d[1] + (e.phase % 2)) % 2 = 0
                    /\ InGrid(cx + d[2], cy + 4, e.width, e.height))
    IN  [i \in DOMAIN head |-> <<cx + head[i][1], cy + head[i][2], Q(3, 5)>>]
        \o [i \in DOMAIN body |-> <<cx + body[i][1], cy + body[i][2], Q(3, 5)>>]
        \o [i \in DOMAIN feet |-> <<cx + feet[i][2], cy + 4, Q(3, 5)>>]

Ghost_step_clears_done(e) ==
    LET e1 == [e EXCEPT !.x = QAdd(e.x, e.x_speed), !.phase = e.phase + 1]
    IN  IF QLe(QI(e1.width + 4), e1.x)
        THEN Ret([e1 EXCEPT !.done = TRUE], <<>>)
        ELSE Ret([e1 EXCEPT !.done = FALSE], Ghost_pixels(e1))

Ghost_step(e) ==
    LET e1 == [e EXCEPT !.x = QAdd(e.x, e.x_speed), !.phase = e.phase + 1]
    IN  IF QLe(QI(e1.width + 4), e1.x)
        THEN Ret([e1 EXCEPT !.done = TRUE], <<>>)
        ELSE Ret(e1, Ghost_pixels(e1))

(***************************************************************************)
(* effects.py: Comet.  tail is a deque(maxlen=tail_length).  distance      *)
(* grows by math.hypot(dx, dy) each step; the bounces change only the      *)
(* signs of dx and dy, so the hypotenuse is one number for the life of the *)
(* object and distance is kept as the count of hypotenuses added.          *)
(***************************************************************************)
Comet_reset(e) ==
    [e EXCEPT !.x = e.start_x, !.y = e.start_y, !.tail = <<>>, !.distance = 0]

Comet_init(x, y, dx, dy, tail_length, bounce, width, height) ==
    Comet_reset([kind |-> "Comet", width |-> width, height |-> height,
                 dx |-> dx, dy |-> dy, tail |-> <<>>,
                 tail_length |-> tail_length, bounce |-> bounce,
                 start_x |-> x, start_y |-> y, max_distance |-> 100,
                 x |-> x, y |-> y, distance |-> 0])

\* Is the coordinate v outside [0, limit)?
Comet_outside(v, limit) == QLt(v, QI(0)) \/ QLe(QI(limit), v)

\* The head's move: the new x, y, dx and dy.
Comet_move(e) ==
    LET nx == QAdd(e.x, e.dx)
        ny == QAdd(e.y, e.dy)
    IN  IF e.bounce
        THEN LET dx1 == IF Comet_outside(nx, e.width)
                        THEN QMul(e.dx, QI(-1)) ELSE e.dx
                 dy1 == IF Comet_outside(ny, e.height)
                        THEN QMul(e.dy, QI(-1)) ELSE e.dy
             IN  [e EXCEPT !.dx = dx1, !.dy = dy1,
                           !.x = IF Comet_outside(nx, e.width)
                                 THEN QAdd(e.x, dx1) ELSE nx,
                           !.y = IF Comet_outside(ny, e.height)
                                 THEN QAdd(e.y, dy1) ELSE ny]
        ELSE [e EXCEPT !.x = QMod(nx, e.width), !.y = QMod(ny, e.height)]

Comet_step(e) ==
    LET m  == Comet_move(e)
        e1 == [m EXCEPT !.tail = appendleft(m.tail,
                                            <<QRound(m.x), QRound(m.y)>>,
                                            m.tail_length),
                        !.distance = m.distance + 1]
    IN  Ret(e1, [i \in DOMAIN e1.tail |->
                    <<e1.tail[i][1], e1.tail[i][2],
                      falloff(i - 1, Len(e1.tail))>>])

(***************************************************************************)
(* WaveRipple, in effects.py (the ripple starts over at its maximum        *)
(* radius) and in effects_engine2.py (the ripple finishes there).          *)
(* max_radius is never negative and is kept as its square, [sq |-> m * m], *)
(* so that the default math.hypot(w, h) is exact.  A brightness is kept    *)
(* as [d2, r, fade], standing for cos(|sqrt(d2) - r| * pi / 2) * fade.     *)
(***************************************************************************)
\* round(math.sqrt(sq)) for a rational sq >= 0.
round_sqrt(sq) ==
    LET k == CHOOSE i \in 0..(sq.n + 1) :
                 /\ i * i * sq.d <= sq.n
                 /\ sq.n < (i + 1) * (i + 1) * sq.d
        half2 == Q((2 * k + 1) * (2 * k + 1), 4)
    IN  IF QLt(sq, half2) THEN k
        ELSE IF QLt(half2, sq) THEN k + 1
        ELSE IF k % 2 = 0 THEN k ELSE k + 1

\* abs(math.sqrt(d2) - r) < 1.0, for r >= 0.
WaveRipple_near(d2, r) ==
    /\ QLt(d2, QMul(QAdd(r, QI(1)), QAdd(r, QI(1))))
    /\ QLt(r, QI(1)) \/ QLt(QMul(QSub(r, QI(1)), QSub(r, QI(1))), d2)

\* The two nested loops over the grid: the frame, or the ZeroDivisionError
\* of the first cell on the wave front when round(max_radius) is 0.
WaveRipple_pixels(e) ==
    LET d2(c) == QAdd(QMul(QSub(QI(c[1]), e.cx), QSub(QI(c[1]), e.cx)),
                      QMul(QSub(QI(c[2]), e.cy), QSub(QI(c[2]), e.cy)))
        grid == Nested(Range(0, e.width - 1), Range(0, e.height - 1))
        near == SelectSeq(grid, LAMBDA c : WaveRipple_near(d2(c), e.radius))
        rmax == round_sqrt(e.max_radius.sq)
    IN  IF near /= <<>> /\ rmax = 0 THEN Raise(e, "ZeroDivisionError")
        ELSE LET fade == QMax(QI(0), QSub(QI(1), Q(QRound(e.radius), rmax)))
                 lit  == IF QLt(QI(0), fade) THEN near ELSE <<>>
             IN  Ret(e, [i \in DOMAIN lit |->
                            <<lit[i][1], lit[i][2],
                              [d2 |-> d2(lit[i]), r |-> e.radius,
                               fade |-> fade]>>])

WaveRipple_max_radius(e) ==
    IF e._max_radius /= <<>>
    THEN [sq |-> QMul(e._max_radius[1], e._max_radius[1])]
    ELSE [sq |-> QI(e.width * e.width + e.height * e.height)]

WaveRipple_reset(e) ==
    [e EXCEPT !.radius = QI(0), !.max_radius = WaveRipple_max_radius(e)]

WaveRipple_init(cx, cy, speed, max_radius, width, height) ==
    WaveRipple_reset([kind |-> "WaveRipple", width |-> width,
                      height |-> height, cx |-> cx, cy |-> cy,
                      speed |-> speed, _max_radius |-> max_radius,
                      radius |-> QI(0), max_radius |-> [sq |-> QI(0)]])

WaveRipple_step(e) ==
    LET p == WaveRipple_pixels(e)
        r == QAdd(e.radius, e.speed)
    IN  IF p.exc /= "" THEN p
        ELSE IF QRound(r) > round_sqrt(e.max_radius.sq)
             THEN Ret([e EXCEPT !.radius = QI(0)], p.frame)
             ELSE Ret([e EXCEPT !.radius = r], p.frame)

effects_engine2_WaveRipple_reset(e) ==
    [e EXCEPT !.radius = QI(0), !.done = FALSE,
              !.max_radius = WaveRipple_max_radius(e)]

effects_engine2_WaveRipple_init(cx, cy, speed, max_radius, width, height) ==
    effects_engine2_WaveRipple_reset(
        [kind |-> "effects_engine2.WaveRipple", width |-> width,
         height |-> height, cx |-> cx, cy |-> cy, speed |-> speed,
         _max_radius |-> max_radius, radius |-> QI(0),
         max_radius |-> [sq |-> QI(0)], done |-> FALSE])

\* A step() that compares the radius with the maximum without rounding.
effects_engine2_WaveRipple_step_unrounded(e) ==
    IF e.done THEN Ret(e, <<>>)
    ELSE LET p == WaveRipple_pixels(e)
             r == QAdd(e.radius, e.speed)
         IN  IF p.exc /= "" THEN p
             ELSE IF QLt(e.max_radius.sq, QMul(r, r))
                  THEN Ret([e EXCEPT !.radius = r, !.done = TRUE], p.frame)
                  ELSE Ret([e EXCEPT !.radius = r], p.frame)

effects_engine2_WaveRipple_step(e) ==
    IF e.done THEN Ret(e, <<>>)
    ELSE LET p == WaveRipple_pixels(e)
             r == QAdd(e.radius, e.speed)
         IN  IF p.exc /= "" THEN p
             ELSE IF QRound(r) > round_sqrt(e.max_radius.sq)
                  THEN Ret([e EXCEPT !.radius = r, !.done = TRUE], p.frame)
                  ELSE Ret([e EXCEPT !.radius = r], p.frame)

(***************************************************************************)
(* effects.py: ScannerSweep.  done is the attribute that step() assigns    *)
(* and that neither __init__ nor reset() creates: <<>> until it is set.    *)
(***************************************************************************)
ScannerSweep_reset(e) ==
    [e EXCEPT !.pos = QI(0), !.x_direction = 1, !.trail = <<>>]

ScannerSweep_init(horizontal, speed, trail_length, bounce, width, height) ==
    ScannerSweep_reset([kind |-> "ScannerSweep", width |-> width,
                        height |-> height, horizontal |-> horizontal,
                        speed |-> speed, trail_length |-> trail_length,
                        bounce |-> bounce, _bounces |-> 0, pos |-> QI(0),
                        x_direction |-> 0, trail |-> <<>>, done |-> <<>>])

ScannerSweep_limit(e) == IF e.horizontal THEN e.width - 1 ELSE e.height - 1

\* pos < 0 or pos > limit
ScannerSweep_outside(e, pos) ==
    QLt(pos, QI(0)) \/ QLt(QI(ScannerSweep_limit(e)), pos)

ScannerSweep_move(e) ==
    LET pos == QAdd(e.pos, QMul(QI(e.x_direction), e.speed))
    IN  IF ScannerSweep_outside(e, pos)
        THEN IF e.bounce
             THEN [e EXCEPT !.x_direction = -e.x_direction,
                            !.pos = QAdd(pos, QMul(QI(-e.x_direction), e.speed)),
                            !._bounces = e._bounces + 1]
             ELSE [e EXCEPT !.pos = QI(0), !.done = <<TRUE>>]
        ELSE [e EXCEPT !.pos = pos]

\* The line of one trail entry: a whole column, or a whole row.
ScannerSweep_line(e, p, brightness) ==
    IF e.horizontal
    THEN [y \in 1..e.height |-> <<p, y - 1, brightness>>]
    ELSE [x \in 1..e.width |-> <<x - 1, p, brightness>>]

ScannerSweep_step(e) ==
    LET m  == ScannerSweep_move(e)
        e1 == [m EXCEPT !.trail = appendleft(m.trail, QInt(m.pos),
                                             m.trail_length)]
    IN  Ret(e1, Concat([i \in DOMAIN e1.trail |->
                    ScannerSweep_line(e1, e1.trail[i],
                                      falloff(i - 1, e1.trail_length))]))

ScannerSweep_is_done(e) == FALSE

(***************************************************************************)
(* effects.py: PelletRow and PacManScene.  pellets is a set of small       *)
(* non-negative ints, which Python iterates in ascending order.  The scene *)
(* reports, next to its frame, the argument of eat() (calls) and the three *)
(* frames it concatenated (emitted).                                       *)
(***************************************************************************)
PelletRow_reset(e) ==
    [e EXCEPT !.pellets = {x \in 0..(e.width - 1) : x % 3 = 0}, !.done = FALSE]

PelletRow_init(y, width) ==
    PelletRow_reset([kind |-> "PelletRow", width |-> width, y |-> y,
                     pellets |-> {}, done |-> FALSE])

PelletRow_eat(e, x) == [e EXCEPT !.pellets = e.pellets \ {QInt(x)}]

PelletRow_step(e) ==
    LET xs == SelectSeq(Range(0, e.width - 1), LAMBDA x : x \in e.pellets)
    IN  Ret(e, [i \in DOMAIN xs |-> <<xs[i], e.y, Q(4, 5)>>])

\* A reset() that leaves the pellet row as it is.
PacManScene_reset_keeps_pellets(e) ==
    [e EXCEPT !.pacman = PacMan_reset(e.pacman),
              !.ghost = Ghost_reset(e.ghost),
              !.done = FALSE]

PacManScene_reset(e) ==
    [e EXCEPT !.pellets = PelletRow_reset(e.pellets),
              !.pacman = PacMan_reset(e.pacman),
              !.ghost = Ghost_reset(e.ghost),
              !.done = FALSE]

PacManScene_init(pellets, pacman, ghost) ==
    PacManScene_reset([kind |-> "PacManScene", pellets |-> pellets,
                       pacman |-> pacman, ghost |-> ghost, done |-> FALSE])

\* self.pacman.x > self.pacman.width + 4
PacManScene_exited(pacman) == QLt(QI(pacman.width + 4), pacman.x)

\* The end of step(): the three frames in order, and the exit test.
PacManScene_assemble(e, pm, pl, gh) ==
    [eff |-> [e EXCEPT !.pacman = pm.eff, !.pellets = pl.eff, !.ghost = gh.eff,
                       !.done = e.done \/ PacManScene_exited(pm.eff)],
     frame |-> pl.frame \o gh.frame \o pm.frame,
     exc |-> "",
     calls |-> << [op |-> "eat", x |-> QInt(pm.eff.x)] >>,
     emitted |-> <<pl.frame, gh.frame, pm.frame>>]

\* eat(), then the pellets' frame.
PacManScene_eat(e, pm, gh) ==
    PacManScene_assemble(e, pm,
        PelletRow_step(PelletRow_eat(e.pellets, pm.eff.x)), gh)

\* A step() that assembles the pellets' frame before it calls eat().
PacManScene_step_eats_late(e) ==
    PacManScene_assemble(e, PacMan_step(e.pacman),
        [PelletRow_step(e.pellets) EXCEPT
            !.eff = PelletRow_eat(e.pellets, PacMan_step(e.pacman).eff.x)],
        Ghost_step(e.ghost))

PacManScene_step(e) ==
    PacManScene_eat(e, PacMan_step(e.pacman), Ghost_step(e.ghost))

(***************************************************************************)
(* effects.py: Sparkle.  reset() draws two random numbers; count and speed *)
(* are the values randint(0, 50) and randint(10, 50) return in the call.   *)
(* _fixed_speed is <<>> for None.  The brightness math.sin(t * math.pi) is *)
(* kept as the phase t it is the sine of.                                  *)
(***************************************************************************)
Sparkle_reset(e, count, speed) ==
    LET sp == IF e._fixed_speed \in {<<>>, <<0>>} THEN speed
              ELSE e._fixed_speed[1]
    IN  [e EXCEPT !.step_count = count, !.speed = sp, !.max_steps = sp,
                  !.brightness = 1]

Sparkle_init(x, y, fixed, count, speed) ==
    Sparkle_reset([kind |-> "Sparkle", x |-> x, y |-> y,
                   _fixed_speed |-> fixed, step_count |-> 0, speed |-> 0,
                   max_steps |-> 0, brightness |-> 1], count, speed)

Sparkle_step(e, count, speed) ==
    LET t  == Q(e.step_count, e.max_steps)
        e1 == [e EXCEPT !.step_count = e.step_count + 1]
    IN  Ret(IF e1.step_count > e1.max_steps
            THEN Sparkle_reset(e1, count, speed) ELSE e1,
            << <<e.x, e.y, [sin_pi |-> t]>> >>)

(***************************************************************************)
(* effects.py: SparkleField.  reset() is given what its random calls       *)
(* return: positions, the list shuffle() leaves, and speeds, the values of *)
(* the randint calls in list order.  step() is given first and again, the  *)
(* values randint(0, 50) returns to the sparkles it activates and to the   *)
(* active sparkles that start a new cycle in the call.                     *)
(***************************************************************************)
SparkleField_reset(e, positions, speeds) ==
    [e EXCEPT !.position_pool =
                  [i \in DOMAIN positions |->
                      <<positions[i][1], positions[i][2], speeds[i]>>],
              !.pool_index = 0, !.active_sparkles = <<>>, !.done = FALSE]

SparkleField_init(density, speed_range, width, height, positions, speeds) ==
    SparkleField_reset([kind |-> "SparkleField", width |-> width,
                        height |-> height, density |-> density,
                        speed_range |-> speed_range, position_pool |-> <<>>,
                        pool_index |-> 0, active_sparkles |-> <<>>,
                        done |-> FALSE], positions, speeds)

\* The while loop with the density test left out: the pool is used up.
SparkleField_activate_whole_pool(e, first) ==
    LET n == Len(e.position_pool) - e.pool_index
    IN  [e EXCEPT !.active_sparkles = e.active_sparkles \o
                      [i \in 1..n |->
                          LET p == e.position_pool[e.pool_index + i]
                          IN  Sparkle_init(p[1], p[2], <<p[3]>>, first, 10)],
                  !.pool_index = e.pool_index + n]

\* The while loop at the head of step(): pool entries become sparkles until
\* the field holds density of them or the pool is used up.
SparkleField_activate(e, first) ==
    LET n == Max(0, Min(e.density - Len(e.active_sparkles),
                        Len(e.position_pool) - e.pool_index))
    IN  [e EXCEPT !.active_sparkles = e.active_sparkles \o
                      [i \in 1..n |->
                          LET p == e.position_pool[e.pool_index + i]
                          IN  Sparkle_init(p[1], p[2], <<p[3]>>, first, 10)],
                  !.pool_index = e.pool_index + n]

SparkleField_step(e, first, again) ==
    LET a == SparkleField_activate(e, first)
        r == [i \in DOMAIN a.active_sparkles |->
                 Sparkle_step(a.active_sparkles[i], again, 10)]
    IN  Ret([a EXCEPT !.active_sparkles = [i \in DOMAIN r |-> r[i].eff]],
            Concat([i \in DOMAIN r |-> r[i].frame]))

(***************************************************************************)
(* The BaseEffect protocol: the method each object's class provides.       *)
(***************************************************************************)
RECURSIVE step(_), reset(_)

is_done(e) ==
    IF e.kind \in {"BakedAnimation", "ZigZagSweep", "TextScroller", "PacMan",
                   "Ghost", "effects_engine2.WaveRipple", "PelletRow",
                   "PacManScene"}
    THEN e.done
    ELSE IF e.kind = "ScannerSweep" THEN ScannerSweep_is_done(e)
    ELSE FALSE

(***************************************************************************)
(* effects.py: Layer and LayeredEffect.  pixels is the dict of step(): a   *)
(* sequence of <<x, y, b>> with pairwise distinct cells in insertion       *)
(* order, which is the order of the returned list.                         *)
(***************************************************************************)
Layer(e, mode) == [effect |-> e, blend |-> mode]

LayeredEffect_init(layers) == [kind |-> "LayeredEffect", layers |-> layers]

dict_has(pixels, key) ==
    \E i \in DOMAIN pixels : <<pixels[i][1], pixels[i][2]>> = key

dict_get(pixels, key, default) ==
    IF dict_has(pixels, key)
    THEN pixels[CHOOSE i \in DOMAIN pixels : <<pixels[i][1], pixels[i][2]>> = key][3]
    ELSE default

dict_set(pixels, key, b) ==
    IF dict_has(pixels, key)
    THEN [i \in DOMAIN pixels |->
            IF <<pixels[i][1], pixels[i][2]>> = key
            THEN <<key[1], key[2], b>> ELSE pixels[i]]
    ELSE Append(pixels, <<key[1], key[2], b>>)

LayeredEffect_put_ignoring_dst(pixels, s, mode) ==
    dict_set(pixels, <<s[1], s[2]>>, blend(QI(0), s[3], mode))

\* pixels[key] = blend(pixels.get(key, 0.0), b, layer.blend)
LayeredEffect_put(pixels, s, mode) ==
    dict_set(pixels, <<s[1], s[2]>>,
             blend(dict_get(pixels, <<s[1], s[2]>>, QI(0)), s[3], mode))

RECURSIVE LayeredEffect_blend_frame(_, _, _)
LayeredEffect_blend_frame(pixels, f, mode) ==
    IF f = <<>> THEN pixels
    ELSE LayeredEffect_blend_frame(LayeredEffect_put(pixels, Head(f), mode),
                                   Tail(f), mode)

LayeredEffect_visit_no_reset(layer) ==
    LET r == step(layer.effect)
    IN  [eff |-> r.eff, frame |-> r.frame, exc |-> r.exc,
         calls |-> << [op |-> "step", done |-> is_done(layer.effect)] >>]

\* One layer's turn: reset it if it is done, then step it.  calls lists the
\* calls made, each step with what is_done() was when it was made.
LayeredEffect_visit(layer) ==
    LET wasDone == is_done(layer.effect)
        e0 == IF wasDone THEN reset(layer.effect) ELSE layer.effect
        r  == step(e0)
    IN  [eff |-> r.eff, frame |-> r.frame, exc |-> r.exc,
         calls |-> (IF wasDone THEN << [op |-> "reset", done |-> TRUE] >> ELSE <<>>)
                   \o << [op |-> "step", done |-> is_done(e0)] >>]

RECURSIVE LayeredEffect_loop(_, _)
LayeredEffect_loop(acc, i) ==
    IF i > Len(acc.layers) \/ acc.exc /= "" THEN acc
    ELSE LET layer == acc.layers[i]
             v == LayeredEffect_visit(layer)
         IN  LayeredEffect_loop(
                 [layers  |-> [acc.layers EXCEPT ![i] = Layer(v.eff, layer.blend)],
                  pixels  |-> LayeredEffect_blend_frame(acc.pixels, v.frame,
                                                        layer.blend),
                  calls   |-> Append(acc.calls, v.calls),
                  emitted |-> Append(acc.emitted, v.frame),
                  exc     |-> v.exc],
                 i + 1)

LayeredEffect_run(e) ==
    LayeredEffect_loop([layers |-> e.layers, pixels |-> <<>>, calls |-> <<>>,
                        emitted |-> <<>>, exc |-> ""], 1)

LayeredEffect_step(e) ==
    LET r == LayeredEffect_run(e)
    IN  [eff |-> [e EXCEPT !.layers = r.layers],
         frame |-> IF r.exc = "" THEN r.pixels ELSE <<>>,
         exc |-> r.exc, calls |-> r.calls, emitted |-> r.emitted]

LayeredEffect_reset(e) ==
    [e EXCEPT !.layers = [i \in DOMAIN e.layers |->
                            Layer(reset(e.layers[i].effect), e.layers[i].blend)]]

step(e) ==
    CASE e.kind = "BakedAnimation" -> BakedAnimation_step(e)
      [] e.kind = "ZigZagSweep"    -> ZigZagSweep_step(e)
      [] e.kind = "TextScroller"   -> TextScroller_step(e)
      [] e.kind = "PacMan"         -> PacMan_step(e)
      [] e.kind = "Ghost"          -> Ghost_step(e)
      [] e.kind = "LayeredEffect"  -> LayeredEffect_step(e)
      [] e.kind = "Comet"          -> Comet_step(e)
      [] e.kind = "WaveRipple"     -> WaveRipple_step(e)
      [] e.kind = "effects_engine2.WaveRipple" ->
            effects_engine2_WaveRipple_step(e)
      [] e.kind = "ScannerSweep"   -> ScannerSweep_step(e)
      [] e.kind = "PelletRow"      -> PelletRow_step(e)
      [] e.kind = "PacManScene"    -> PacManScene_step(e)

reset(e) ==
    CASE e.kind = "BakedAnimation" -> BakedAnimation_reset(e)
      [] e.kind = "ZigZagSweep"    -> ZigZagSweep_reset(e)
      [] e.kind = "TextScroller"   -> TextScroller_reset(e)
      [] e.kind = "PacMan"         -> PacMan_reset(e)
      [] e.kind = "Ghost"          -> Ghost_reset(e)
      [] e.kind = "LayeredEffect"  -> LayeredEffect_reset(e)
      [] e.kind = "Comet"          -> Comet_reset(e)
      [] e.kind = "WaveRipple"     -> WaveRipple_reset(e)
      [] e.kind = "effects_engine2.WaveRipple" ->
            effects_engine2_WaveRipple_reset(e)
      [] e.kind = "ScannerSweep"   -> ScannerSweep_reset(e)
      [] e.kind = "PelletRow"      -> PelletRow_reset(e)
      [] e.kind = "PacManScene"    -> PacManScene_reset(e)

(***************************************************************************)
(* runner.py: clamp01 and EffectRunner.  The runner is a record: pc is the *)
(* position of run() ("idle" before a call, "loop" inside the while loop,  *)
(* "returned" after it), frames is run()'s argument (<<>> for None, <<n>>  *)
(* for n) and count its local counter.                                     *)
(***************************************************************************)
\* A clamp01() that does not take the absolute value.
clamp01_signed(v) == QMax(QI(0), QMin(QI(1), v))

clamp01(v) == QMax(QI(0), QMin(QI(1), QAbs(v)))

\* Core/math.py: clamp01.
Core_clamp01(v) == QMax(QI(0), QMin(QI(1), QAbs(v)))

EffectRunner_init(invert) ==
    [pc |-> "idle", invert |-> invert, frames |-> <<>>, count |-> 0]

\* An apply_transformation() that ignores invert.
EffectRunner_apply_transformation_plain(r, b) == b

EffectRunner_apply_transformation(r, b) ==
    IF r.invert THEN QSub(QI(1), b) ELSE b

\* The set_pixel calls of one tick, in call order.
EffectRunner_render(r, f, w, h) ==
    Concat([i \in 1..w |->
        [j \in 1..h |->
            LET c == <<i - 1, j - 1>>
                b == IF c \in Keys(f) THEN LastAt(f, c) ELSE QI(0)
            IN  <<i - 1, j - 1, clamp01(EffectRunner_apply_transformation(r, b))>>]])

\* The test of the while loop.
EffectRunner_continues(r) == r.frames = <<>> \/ r.count < r.frames[1]

EffectRunner_call(r, frames) ==
    LET r0 == [r EXCEPT !.frames = frames, !.count = 0]
    IN  [r0 EXCEPT !.pc = IF EffectRunner_continues(r0) THEN "loop"
                          ELSE "returned"]

\* One pass through the body of the while loop, and the test that follows;
\* s is what self.effect.step() handed back.
EffectRunner_tick(r, s, w, h) ==
    LET r1 == [r EXCEPT !.count = r.count + 1]
    IN  IF s.exc /= ""
        THEN [runner |-> [r EXCEPT !.pc = s.exc], eff |-> s.eff,
              frame |-> <<>>, display |-> <<>>]
        ELSE [runner |-> [r1 EXCEPT !.pc = IF EffectRunner_continues(r1)
                                           THEN "loop" ELSE "returned"],
              eff |-> s.eff,
              frame |-> s.frame,
              display |-> EffectRunner_render(r, s.frame, w, h)]

(***************************************************************************)
(* effects_engine3.py: EffectRunner.  The same record as above with the    *)
(* global brightness multiplier; reset is run()'s second argument.         *)
(***************************************************************************)
effects_engine3_EffectRunner_init(brightness, invert) ==
    [pc |-> "idle", invert |-> invert, frames |-> <<>>, count |-> 0,
     brightness |-> clamp01(brightness)]

\* A _process_brightness() that inverts before it scales.
effects_engine3_EffectRunner_process_brightness_invert_first(r, b) ==
    clamp01(QMul(IF r.invert THEN QSub(QI(1), b) ELSE b, r.brightness))

effects_engine3_EffectRunner_process_brightness(r, b) ==
    LET b1 == QMul(b, r.brightness)
    IN  clamp01(IF r.invert THEN QSub(QI(1), b1) ELSE b1)

\* A render_frame() that calls set_pixel for every sample.
effects_engine3_EffectRunner_render_frame_unchecked(r, f, w, h) ==
    [i \in DOMAIN f |->
        <<f[i][1], f[i][2],
          effects_engine3_EffectRunner_process_brightness(r, f[i][3])>>]

\* The set_pixel calls of render_frame(), in call order.
effects_engine3_EffectRunner_render_frame(r, f, w, h) ==
    LET on == SelectSeq(f, LAMBDA p : InGrid(p[1], p[2], w, h))
    IN  [i \in DOMAIN on |->
            <<on[i][1], on[i][2],
              effects_engine3_EffectRunner_process_brightness(r, on[i][3])>>]

effects_engine3_EffectRunner_call(r, frames) ==
    EffectRunner_call(r, frames)

\* One pass through the body of the while loop, and the test that follows;
\* s is what render_frame()'s self.effect.step() handed back.
effects_engine3_EffectRunner_tick(r, s, w, h) ==
    LET r1 == [r EXCEPT !.count = r.count + 1]
    IN  IF s.exc /= ""
        THEN [runner |-> [r EXCEPT !.pc = s.exc], eff |-> s.eff,
              frame |-> <<>>, display |-> <<>>]
        ELSE [runner |-> [r1 EXCEPT !.pc =
                            IF r1.frames = <<>> /\ is_done(s.eff)
                            THEN "returned"
                            ELSE IF EffectRunner_continues(r1) THEN "loop"
                            ELSE "returned"],
              eff |-> s.eff,
              frame |-> s.frame,
              display |-> effects_engine3_EffectRunner_render_frame(
                              r, s.frame, w, h)]

(***************************************************************************)
(* runner.py: AnimationRecorder.  The recorder is a record: pc, arg and    *)
(* count are the position, argument and counter of record(); frames is     *)
(* self.frames; saved remembers what the last save() wrote (<<>> before    *)
(* the first save).                                                        *)
(***************************************************************************)
AnimationRecorder_init(fps) ==
    [pc |-> "idle", fps |-> fps, frames |-> <<>>, arg |-> <<>>, count |-> 0,
     saved |-> <<>>]

AnimationRecorder_continues(r) == r.arg = <<>> \/ r.count < r.arg[1]

AnimationRecorder_call(r, frames) ==
    LET r0 == [r EXCEPT !.arg = frames, !.count = 0]
    IN  [r0 EXCEPT !.pc = IF AnimationRecorder_continues(r0) THEN "loop"
                          ELSE "returned"]

AnimationRecorder_tick_no_break(r, s) ==
    LET r1 == [r EXCEPT !.frames = Append(r.frames, s.frame),
                        !.count = r.count + 1]
    IN  IF s.exc /= ""
        THEN [recorder |-> [r EXCEPT !.pc = s.exc], eff |-> s.eff,
              frame |-> <<>>]
        ELSE [recorder |-> [r1 EXCEPT !.pc =
                                IF AnimationRecorder_continues(r1)
                                THEN "loop" ELSE "returned"],
              eff |-> s.eff,
              frame |-> s.frame]

\* One pass through the body of the while loop, and the test that follows;
\* s is what self.effect.step() handed back.
AnimationRecorder_tick(r, s) ==
    LET r1 == [r EXCEPT !.frames = Append(r.frames, s.frame),
                        !.count = r.count + 1]
    IN  IF s.exc /= ""
        THEN [recorder |-> [r EXCEPT !.pc = s.exc], eff |-> s.eff,
              frame |-> <<>>]
        ELSE [recorder |-> [r1 EXCEPT !.pc =
                                IF r.arg = <<>> /\ is_done(s.eff)
                                THEN "returned"
                                ELSE IF AnimationRecorder_continues(r1)
                                     THEN "loop" ELSE "returned"],
              eff |-> s.eff,
              frame |-> s.frame]

\* save() writing each frame as the dictionary EffectRunner.run builds from it.
AnimationRecorder_save_as_dicts(r, w, h) ==
    LET last(f, i) == \A j \in DOMAIN f :
                         j > i => <<f[j][1], f[j][2]>> /= <<f[i][1], f[i][2]>>
        items(f) == LET keep == SelectSeq([i \in DOMAIN f |-> i],
                                          LAMBDA i : last(f, i))
                    IN  [k \in DOMAIN keep |-> f[keep[k]]]
    IN  json_dump([version |-> 1, width |-> w, height |-> h, fps |-> r.fps,
                   frame_count |-> Len(r.frames),
                   frames |-> [i \in DOMAIN r.frames |-> items(r.frames[i])]])

\* The document save() writes.
AnimationRecorder_save(r, w, h) ==
    json_dump([version |-> 1, width |-> w, height |-> h, fps |-> r.fps,
               frame_count |-> Len(r.frames), frames |-> r.frames])

(***************************************************************************)
(* Inputs.  Recorded animations found on disk before the program starts    *)
(* (written by an earlier AnimationRecorder.save), and the constructor     *)
(* arguments the model enumerates.                                         *)
(***************************************************************************)
Container(frames) ==
    json_dump([version |-> 1, width |-> GridW, height |-> GridH,
               fps |-> 25, frame_count |-> Len(frames), frames |-> frames])

Clip1 == << << <<0, 0, Q(1, 5)>> >> >>

Clip2 == << << <<0, 0, Q(9, 10)>> >>,
            << <<1, 0, Q(1, 2)>>, <<0, 0, Q(-3, 10)>> >> >>

Clip3 == << << <<0, 0, Q(17, 10)>>, <<0, 0, Q(1, 4)>> >>,
            << >>,
            << <<GridW, 0, Q(1, 2)>>, <<1, 1, QI(1)>> >> >>

DiskFiles ==
    [f \in {"one.anim.gz", "two.anim.gz", "three.anim.gz"} |->
        IF f = "one.anim.gz" THEN Container(Clip1)
        ELSE IF f = "two.anim.gz" THEN Container(Clip2)
        ELSE Container(Clip3)]

BakedConfigs ==
    {BakedAnimation_init(f, loop) : f \in DOMAIN DiskFiles, loop \in BOOLEAN}

ZigZagConfigs ==
    {ZigZagSweep_init(speed, trail, bounce, GridW, GridH) :
        speed \in {1, 2}, trail \in {0, 2}, bounce \in BOOLEAN}

TextConfigs ==
    {TextScroller_init(text, x_start, 0, speed, 1, QI(1), loop, GridW, GridH) :
        text \in {<<"I">>, <<"L", "?", "I">>},
        x_start \in {<<>>, <<1>>},
        speed \in {QI(0), Q(3, 2), QI(2)},
        loop \in BOOLEAN}

PacManConfigs ==
    {PacMan_init(x, y, x_speed, QI(0), QI(1), QI(0), wrap, GridW, GridH) :
        x \in {QI(0), Q(1, 2)},
        y \in {QI(0), Q(1, 2)},
        x_speed \in {Q(1, 2), QI(1)},
        wrap \in BOOLEAN}

GhostConfigs ==
    {Ghost_init(x, QI(0), x_speed, GridW, GridH) :
        x \in {QI(GridW), QI(GridW + 5)},
        x_speed \in {QI(-1), QI(1), Q(3, 2)}}

LeafConfigs ==
    BakedConfigs \cup ZigZagConfigs \cup TextConfigs \cup PacManConfigs
    \cup GhostConfigs

(***************************************************************************)
(* effects_engine3.py: blend_pixel, the effects a Compositor is given      *)
(* here (ZigZagSweep, StaticPixels), Layer and Compositor.  The display    *)
(* module's width and height are GridW and GridH.  The pixel buffer, a     *)
(* dict, is the sequence of its items in insertion order.                  *)
(***************************************************************************)
REPLACE == "replace"
MULTIPLY == "multiply"
SCREEN == "screen"
ALPHA == "alpha"

blend_pixel(dst, src0, mode, opacity) ==
    LET src == QMul(src0, opacity)
    IN  CASE mode = REPLACE  -> IF QLt(QI(0), src) THEN src ELSE dst
          [] mode = MAX      -> QMax(dst, src)
          [] mode = ADD      -> QMin(QI(1), QAdd(dst, src))
          [] mode = MULTIPLY -> QMul(dst, src)
          [] mode = SCREEN   ->
                QSub(QI(1), QMul(QSub(QI(1), dst), QSub(QI(1), src)))
          [] mode = ALPHA    -> QAdd(QMul(dst, QSub(QI(1), opacity)), src)
          [] OTHER           -> src

effects_engine3_ZigZagSweep_reset(e) ==
    [e EXCEPT !.w = GridW, !.h = GridH, !.row = 0, !.col = 0, !.x_dir = 1,
              !.y_dir = 1, !.trail = <<>>, !.done = FALSE]

effects_engine3_ZigZagSweep_init(speed, trail_length, bounce) ==
    effects_engine3_ZigZagSweep_reset(
        [kind |-> "effects_engine3.ZigZagSweep", speed |-> speed,
         trail_length |-> trail_length, bounce |-> bounce, w |-> 0, h |-> 0,
         row |-> 0, col |-> 0, x_dir |-> 0, y_dir |-> 0, trail |-> <<>>,
         done |-> FALSE])

effects_engine3_ZigZagSweep_move(e) ==
    LET col1 == e.col + e.x_dir * e.speed
    IN  IF col1 < 0 \/ col1 >= e.w
        THEN LET col2 == Max(0, Min(e.w - 1, col1))
                 row1 == e.row + e.y_dir
                 xd   == -e.x_dir
             IN  IF row1 < 0 \/ row1 >= e.h
                 THEN IF e.bounce
                      THEN [e EXCEPT !.col = col2, !.x_dir = xd,
                                     !.row = Max(0, Min(e.h - 1, row1)),
                                     !.y_dir = -e.y_dir]
                      ELSE [e EXCEPT !.col = col2, !.x_dir = xd,
                                     !.row = row1, !.done = TRUE]
                 ELSE [e EXCEPT !.col = col2, !.x_dir = xd, !.row = row1]
        ELSE [e EXCEPT !.col = col1]

effects_engine3_ZigZagSweep_step(e) ==
    IF e.done THEN Ret(e, <<>>)
    ELSE LET m == effects_engine3_ZigZagSweep_move(e)
         IN  IF m.done THEN Ret(m, <<>>)
             ELSE LET e1 == [m EXCEPT !.trail =
                                appendleft(m.trail, <<m.col, m.row>>,
                                           m.trail_length)]
                  IN  Ret(e1, [i \in DOMAIN e1.trail |->
                                  <<e1.trail[i][1], e1.trail[i][2],
                                    falloff(i - 1, e1.trail_length)>>])

StaticPixels_init(pixels) ==
    [kind |-> "effects_engine3.StaticPixels", pixels |-> pixels]

\* Effect.step, Effect.reset and Effect.is_done of the two classes.
effects_engine3_Effect_step(e) ==
    IF e.kind = "effects_engine3.ZigZagSweep"
    THEN effects_engine3_ZigZagSweep_step(e) ELSE Ret(e, e.pixels)

effects_engine3_Effect_reset(e) ==
    IF e.kind = "effects_engine3.ZigZagSweep"
    THEN effects_engine3_ZigZagSweep_reset(e) ELSE e

effects_engine3_Effect_is_done(e) ==
    IF e.kind = "effects_engine3.ZigZagSweep" THEN e.done ELSE FALSE

Layer_init(eff, blend_mode, opacity, visible) ==
    [effect |-> eff, blend_mode |-> blend_mode, opacity |-> clamp01(opacity),
     visible |-> visible]

Layer_step(layer) ==
    IF ~layer.visible THEN Ret(layer.effect, <<>>)
    ELSE effects_engine3_Effect_step(layer.effect)

Compositor_init(layers) ==
    [kind |-> "effects_engine3.Compositor", layers |-> layers]

\* buffer[key] = blend_pixel(buffer.get(key, 0.0), brightness, ...)
Compositor_put(buffer, s, layer) ==
    LET hits == {i \in DOMAIN buffer : buffer[i][1] = s[1] /\ buffer[i][2] = s[2]}
    IN  IF hits = {}
        THEN Append(buffer, <<s[1], s[2],
                              blend_pixel(QI(0), s[3], layer.blend_mode,
                                          layer.opacity)>>)
        ELSE [i \in DOMAIN buffer |->
                 IF i \in hits
                 THEN <<s[1], s[2], blend_pixel(buffer[i][3], s[3],
                                                layer.blend_mode, layer.opacity)>>
                 ELSE buffer[i]]

RECURSIVE Compositor_blend_pixels(_, _, _)
Compositor_blend_pixels(buffer, pixels, layer) ==
    IF pixels = <<>> THEN buffer
    ELSE Compositor_blend_pixels(Compositor_put(buffer, Head(pixels), layer),
                                 Tail(pixels), layer)

\* One pass of the loop body of composite() on a layer: the layer with its
\* effect afterwards, the calls made on the effect and what step() returned.
Compositor_visit(layer) ==
    LET d  == effects_engine3_Effect_is_done(layer.effect)
        e0 == IF d THEN effects_engine3_Effect_reset(layer.effect)
              ELSE layer.effect
        r  == Layer_step([layer EXCEPT !.effect = e0])
    IN  [layer  |-> [layer EXCEPT !.effect = r.eff],
         calls  |-> (IF d THEN <<"is_done", "reset">> ELSE <<"is_done">>)
                    \o (IF layer.visible THEN <<"step">> ELSE <<>>),
         pixels |-> r.frame]

RECURSIVE Compositor_composite(_, _, _)
Compositor_composite(e, i, acc) ==
    IF i > Len(e.layers) THEN acc
    ELSE LET v == Compositor_visit(e.layers[i])
         IN  Compositor_composite(e, i + 1,
                [layers  |-> Append(acc.layers, v.layer),
                 buffer  |-> Compositor_blend_pixels(acc.buffer, v.pixels,
                                                     e.layers[i]),
                 calls   |-> Append(acc.calls, v.calls),
                 emitted |-> Append(acc.emitted, v.pixels)])

Compositor_step(e) ==
    LET c == Compositor_composite(e, 1, [layers |-> <<>>, buffer |-> <<>>,
                                         calls |-> <<>>, emitted |-> <<>>])
    IN  [eff |-> [e EXCEPT !.layers = c.layers], frame |-> c.buffer,
         calls |-> c.calls, emitted |-> c.emitted]

(***************************************************************************)
(* display.py: capture_pixels.  The interpreter state it works on is the   *)
(* record [set_pixel, blocks, real, serial]: the function bound to         *)
(* scrollphathd.set_pixel, the active capture blocks innermost last (each  *)
(* the locals of one generator: original_set_pixel, captured and the       *)
(* identity of its fake_set_pixel closure), the calls the display's own    *)
(* set_pixel has received, and the number of closures created so far.      *)
(* A function is <<"scrollphathd.set_pixel">> or <<"fake_set_pixel", id>>. *)
(***************************************************************************)
real_set_pixel == <<"scrollphathd.set_pixel">>

scrollphathd_init ==
    [kind |-> "scrollphathd", set_pixel |-> real_set_pixel, blocks |-> <<>>,
     real |-> <<>>, serial |-> 0, raising |-> FALSE]

\* captured[(x, y)] = max(captured.get((x, y), 0.0), b), when b > 0
fake_set_pixel(captured, x, y, b) ==
    IF ~QLt(QI(0), b) THEN captured
    ELSE LET hits == {i \in DOMAIN captured :
                         captured[i][1] = x /\ captured[i][2] = y}
         IN  IF hits = {} THEN Append(captured, <<x, y, QMax(QI(0), b)>>)
             ELSE [i \in DOMAIN captured |->
                      IF i \in hits THEN <<x, y, QMax(captured[i][3], b)>>
                      ELSE captured[i]]

\* entering the with block: the generator runs up to its yield
capture_pixels_enter(s) ==
    [s EXCEPT !.blocks = Append(s.blocks,
                            [original_set_pixel |-> s.set_pixel,
                             captured |-> <<>>, id |-> s.serial + 1]),
              !.set_pixel = <<"fake_set_pixel", s.serial + 1>>,
              !.serial = s.serial + 1]

\* the same exit without try/finally: an exception thrown into the
\* generator at its yield ends it before the assignment
capture_pixels_exit_unprotected(s, raised) ==
    [s EXCEPT !.blocks = SubSeq(s.blocks, 1, Len(s.blocks) - 1),
              !.set_pixel = IF raised THEN s.set_pixel
                            ELSE s.blocks[Len(s.blocks)].original_set_pixel,
              !.raising = raised]

\* leaving the innermost with block, normally or with an exception raised
\* in its body: the finally clause runs either way
capture_pixels_exit(s, raised) ==
    [s EXCEPT !.blocks = SubSeq(s.blocks, 1, Len(s.blocks) - 1),
              !.set_pixel = s.blocks[Len(s.blocks)].original_set_pixel,
              !.raising = raised]

\* scrollphathd.set_pixel(x, y, b), called by drawing code
scrollphathd_set_pixel(s, x, y, b) ==
    IF s.set_pixel = real_set_pixel
    THEN [s EXCEPT !.real = Append(s.real, <<x, y, b>>)]
    ELSE [s EXCEPT !.blocks = [i \in DOMAIN s.blocks |->
             IF s.blocks[i].id = s.set_pixel[2]
             THEN [s.blocks[i] EXCEPT !.captured =
                      fake_set_pixel(s.blocks[i].captured, x, y, b)]
             ELSE s.blocks[i]]]

(***************************************************************************)
(* The parts of the state a specification does not use keep these values.  *)
(***************************************************************************)
NoRunner == EffectRunner_init(FALSE)

NoRecorder == AnimationRecorder_init(25)

NoLayered ==
    /\ calls = <<>>
    /\ emitted = <<>>
    /\ mirror = <<>>
    /\ mirrorFrame = <<>>

NoDrivers ==
    /\ runner = NoRunner
    /\ display = <<>>
    /\ recorder = NoRecorder
    /\ player = <<>>
    /\ playFrame = <<>>
    /\ playCount = 0

(***************************************************************************)
(* SpecEffect: one effect, stepped and reset by a test harness in any      *)
(* order (as test_text_simple.py does).                                    *)
(***************************************************************************)
InitEffect ==
    /\ files = DiskFiles
    /\ effect \in LeafConfigs
    /\ prev = effect
    /\ frame = <<>>
    /\ lastOp = "init"
    /\ nsteps = 0
    /\ NoLayered
    /\ NoDrivers

EffStep ==
    /\ nsteps < MaxSteps
    /\ \E r \in {step(effect)} :
           /\ effect' = r.eff
           /\ frame' = r.frame
           /\ lastOp' = IF r.exc = "" THEN "step" ELSE r.exc
    /\ prev' = effect
    /\ nsteps' = nsteps + 1
    /\ UNCHANGED <<files, calls, emitted, mirror, mirrorFrame, runner, display,
                   recorder, player, playFrame, playCount>>

EffReset ==
    /\ effect' = reset(effect)
    /\ prev' = effect
    /\ lastOp' = "reset"
    /\ nsteps' = 0
    /\ UNCHANGED <<frame, files, calls, emitted, mirror, mirrorFrame, runner,
                   display, recorder, player, playFrame, playCount>>

NextEffect == EffStep \/ EffReset

SpecEffect == InitEffect /\ [][NextEffect]_vars

(***************************************************************************)
(* Claims about a single effect (SpecEffect).                              *)
(***************************************************************************)
Finite(e) ==
    \/ e.kind = "ZigZagSweep" /\ ~e.bounce
    \/ e.kind = "TextScroller" /\ QLt(QI(0), e.speed) /\ ~e.loop
    \/ e.kind = "PacMan" /\ ~e.wrap
    \/ e.kind = "Ghost"

PlayOnce(e) == e.kind = "BakedAnimation" /\ ~e.loop /\ Len(e.frames) >= 1

PlayLoop(e) == e.kind = "BakedAnimation" /\ e.loop /\ Len(e.frames) >= 1

\* C7 as stated: a BakedAnimation(loop=False) over N >= 1 frames is not done
\* after each of the first N step() calls and is done after the (N+1)-th.
C7_DoneAtNPlusOne ==
    PlayOnce(effect) =>
        /\ nsteps \in 1..Len(effect.frames) => ~is_done(effect)
        /\ nsteps = Len(effect.frames) + 1 => is_done(effect)

\* C7 as amended: a BakedAnimation(loop=False) over N >= 1 frames is not done
\* before its N-th step() call; the N-th call returns the last frame and
\* makes is_done() true, and it stays true on later calls.
C7_DoneAtN ==
    PlayOnce(effect) =>
        /\ nsteps < Len(effect.frames) => ~is_done(effect)
        /\ nsteps >= Len(effect.frames) => is_done(effect)
        /\ (lastOp = "step" /\ nsteps = Len(effect.frames)) =>
              frame = effect.frames[Len(effect.frames)]

C7_Witness ==
    /\ PlayOnce(effect)
    /\ Len(effect.frames) >= 2
    /\ lastOp = "step"
    /\ nsteps = Len(effect.frames)

\* C8: a BakedAnimation(loop=True) over N >= 1 frames returns frame
\* (k - 1) mod N from its k-th step() call, so frame 0 follows frame N - 1,
\* and is_done() is false after every call.
C8_LoopReplaysFromStart ==
    PlayLoop(effect) =>
        /\ ~is_done(effect)
        /\ (lastOp = "step" /\ nsteps >= 1) =>
              frame = effect.frames[((nsteps - 1) % Len(effect.frames)) + 1]

C8_Witness ==
    /\ PlayLoop(effect)
    /\ Len(effect.frames) >= 2
    /\ lastOp = "step"
    /\ nsteps = Len(effect.frames) + 1

\* C9: for ZigZagSweep(bounce=False), TextScroller(speed>0, loop=False),
\* PacMan(wrap=False) and Ghost, a step() taken when is_done() is true leaves
\* is_done() true, and is_done() is false right after reset().
C9_DoneIsStickyUntilReset ==
    Finite(effect) =>
        /\ (lastOp = "step" /\ is_done(prev)) => is_done(effect)
        /\ lastOp = "reset" => ~is_done(effect)

\* A Ghost that was done and has since come back inside the display.
C9_Witness ==
    /\ effect.kind = "Ghost"
    /\ lastOp = "step"
    /\ is_done(prev)
    /\ frame /= <<>>

C9_WitnessReset ==
    /\ Finite(effect)
    /\ lastOp = "reset"
    /\ is_done(prev)

\* C10: once done, a step() of BakedAnimation(loop=False),
\* TextScroller(loop=False), ZigZagSweep(bounce=False) or PacMan(wrap=False)
\* returns an empty frame and changes nothing of the effect's state.
C10_DoneStepIsEmptyAndIdle ==
    (/\ \/ effect.kind = "BakedAnimation" /\ ~effect.loop
        \/ effect.kind = "TextScroller" /\ ~effect.loop
        \/ effect.kind = "ZigZagSweep" /\ ~effect.bounce
        \/ effect.kind = "PacMan" /\ ~effect.wrap
     /\ lastOp = "step"
     /\ is_done(prev)) =>
        /\ frame = <<>>
        /\ effect = prev

C10_Witness ==
    /\ effect.kind = "ZigZagSweep"
    /\ ~effect.bounce
    /\ lastOp = "step"
    /\ is_done(prev)
    /\ effect.trail /= <<>>

(***************************************************************************)
(* SpecLayered and SpecBlend: a LayeredEffect over one to MaxLayers        *)
(* layers, stepped and reset; `mirror` holds the same layers in reverse    *)
(* order and is driven in lockstep.  SpecLayered draws its layers from     *)
(* effects that finish, SpecBlend from replayed recordings under every     *)
(* blend mode.                                                             *)
(***************************************************************************)
LayerLists(effects, modes) ==
    LET configs == {Layer(e, mode) : e \in effects, mode \in modes}
        lists[n \in 0..MaxLayers] ==
            IF n = 0 THEN {<<>>}
            ELSE {Append(l, c) : l \in lists[n - 1], c \in configs}
    IN  UNION {lists[n] : n \in 1..MaxLayers}

\* Layers whose effect finishes, beside one that never does.
FiniteLayerEffects ==
    {BakedAnimation_init("one.anim.gz", TRUE),
     BakedAnimation_init("two.anim.gz", FALSE),
     ZigZagSweep_init(GridW, 2, FALSE, GridW, GridH),
     TextScroller_init(<<"I">>, <<1>>, 0, QI(2), 1, Q(1, 2), FALSE, GridW, GridH),
     Ghost_init(QI(GridW + 1), QI(0), Q(3, 2), GridW, GridH)}

\* Layers that replay recorded frames: any frame sequence can be emitted.
EmitterLayerEffects ==
    {BakedAnimation_init("one.anim.gz", TRUE),
     BakedAnimation_init("two.anim.gz", FALSE),
     BakedAnimation_init("three.anim.gz", TRUE)}

Reverse(s) == [i \in DOMAIN s |-> s[Len(s) + 1 - i]]

InitLayers(lists) ==
    /\ files = DiskFiles
    /\ \E layers \in lists :
          /\ effect = LayeredEffect_init(layers)
          /\ mirror = LayeredEffect_init(Reverse(layers))
    /\ prev = effect
    /\ frame = <<>>
    /\ mirrorFrame = <<>>
    /\ lastOp = "init"
    /\ nsteps = 0
    /\ calls = <<>>
    /\ emitted = <<>>
    /\ NoDrivers

InitLayered == InitLayers(LayerLists(FiniteLayerEffects, {MAX, ADD}))

InitBlend == InitLayers(LayerLists(EmitterLayerEffects, BlendMode))

LayStep ==
    /\ nsteps < MaxTicks
    /\ \E r \in {step(effect)}, m \in {step(mirror)} :
           /\ effect' = r.eff
           /\ frame' = r.frame
           /\ mirror' = m.eff
           /\ mirrorFrame' = m.frame
           /\ calls' = r.calls
           /\ emitted' = r.emitted
           /\ lastOp' = IF r.exc = "" THEN "step" ELSE r.exc
    /\ prev' = effect
    /\ nsteps' = nsteps + 1
    /\ UNCHANGED <<files, runner, display, recorder, player, playFrame,
                   playCount>>

LayReset ==
    /\ effect' = reset(effect)
    /\ mirror' = reset(mirror)
    /\ prev' = effect
    /\ lastOp' = "reset"
    /\ nsteps' = 0
    /\ UNCHANGED <<frame, mirrorFrame, calls, emitted, files, runner, display,
                   recorder, player, playFrame, playCount>>

NextLayered == LayStep \/ LayReset

SpecLayered == InitLayered /\ [][NextLayered]_vars

SpecBlend == InitBlend /\ [][NextLayered]_vars

(***************************************************************************)
(* Claims about LayeredEffect (SpecLayered, SpecBlend).                    *)
(***************************************************************************)
\* C1: in every LayeredEffect.step(), each layer's effect is stepped exactly
\* once and only while its is_done() is false: a layer that was done when the
\* tick began is reset first, then stepped.
C1_ResetBeforeStep ==
    lastOp = "step" =>
        /\ Len(calls) = Len(prev.layers)
        /\ \A i \in DOMAIN calls :
              /\ \A k \in DOMAIN calls[i] :
                    calls[i][k].op = "step" => ~calls[i][k].done
              /\ Cardinality({k \in DOMAIN calls[i] : calls[i][k].op = "step"}) = 1
              /\ is_done(prev.layers[i].effect) =>
                    /\ Len(calls[i]) = 2
                    /\ calls[i][1].op = "reset"
                    /\ calls[i][2].op = "step"
                    /\ LET r == step(reset(prev.layers[i].effect))
                       IN  /\ emitted[i] = r.frame
                           /\ effect.layers[i].effect = r.eff

\* A ZigZagSweep layer became done in the tick before, and is restarted.
C1_Witness ==
    /\ lastOp = "step"
    /\ \E i \in DOMAIN prev.layers :
          /\ prev.layers[i].effect.kind = "ZigZagSweep"
          /\ is_done(prev.layers[i].effect)
          /\ emitted[i] /= <<>>

\* The samples for cell c this tick, as <<brightness, mode>>, layer by layer
\* and in emission order within a layer.
SamplesAt(c) ==
    Concat([i \in DOMAIN emitted |->
        LET hits == SelectSeq(emitted[i], LAMBDA p : <<p[1], p[2]>> = c)
        IN  [k \in DOMAIN hits |-> <<hits[k][3], effect.layers[i].blend>>]])

RECURSIVE FoldBlend(_, _)
FoldBlend(acc, samples) ==
    IF samples = <<>> THEN acc
    ELSE FoldBlend(blend(acc, Head(samples)[1], Head(samples)[2]), Tail(samples))

\* C2: the frame LayeredEffect.step() returns names exactly the cells some
\* layer emitted a sample for, each once, and gives each the left fold of
\* blend over the cell's samples starting from 0.0; a lone sample b comes out
\* as 0.25 * b under ALPHA_SOFT and as 0.6 * b under ALPHA_HARD.
C2_FrameIsFoldOfBlend ==
    lastOp = "step" =>
        /\ Keys(frame) = UNION {Keys(emitted[i]) : i \in DOMAIN emitted}
        /\ Len(frame) = Cardinality(Keys(frame))
        /\ \A c \in Keys(frame) :
              LET samples == SamplesAt(c)
                  v == LastAt(frame, c)
              IN  /\ v = FoldBlend(QI(0), samples)
                  /\ (Len(samples) = 1 /\ samples[1][2] = ALPHA_SOFT) =>
                        v = QMul(Q(1, 4), samples[1][1])
                  /\ (Len(samples) = 1 /\ samples[1][2] = ALPHA_HARD) =>
                        v = QMul(Q(3, 5), samples[1][1])

\* A cell that got three samples this tick, two of them from one layer.
C2_Witness ==
    /\ lastOp = "step"
    /\ \E c \in Keys(frame) :
          /\ Len(SamplesAt(c)) = 3
          /\ \E i \in DOMAIN emitted :
                Len(SelectSeq(emitted[i], LAMBDA p : <<p[1], p[2]>> = c)) = 2
          /\ LastAt(frame, c) /= SamplesAt(c)[3][1]

C2_WitnessLoneSoft ==
    /\ lastOp = "step"
    /\ \E c \in Keys(frame) :
          /\ Len(SamplesAt(c)) = 1
          /\ SamplesAt(c)[1][2] = ALPHA_SOFT
          /\ SamplesAt(c)[1][1].n /= 0

\* C3: with L1 = (OVERWRITE, 0.2 at (0,0)) and L2 = (MAX, 0.9 at (0,0)) the
\* order [L1, L2] gives 0.9 at (0,0) and the order [L2, L1] gives 0.2; with
\* two MAX layers both orders give every cell the same brightness.
C3_OrderMattersUnlessMax ==
    (lastOp = "step" /\ Len(effect.layers) = 2) =>
        /\ (/\ effect.layers[1].blend = OVERWRITE
            /\ effect.layers[2].blend = MAX
            /\ emitted[1] = << <<0, 0, Q(1, 5)>> >>
            /\ emitted[2] = << <<0, 0, Q(9, 10)>> >>) =>
              /\ AsMap(frame) = (<<0, 0>> :> Q(9, 10))
              /\ AsMap(mirrorFrame) = (<<0, 0>> :> Q(1, 5))
        /\ (effect.layers[1].blend = MAX /\ effect.layers[2].blend = MAX) =>
              AsMap(frame) = AsMap(mirrorFrame)

C3_Witness ==
    /\ lastOp = "step"
    /\ Len(effect.layers) = 2
    /\ effect.layers[1].blend = OVERWRITE
    /\ effect.layers[2].blend = MAX
    /\ emitted[1] = << <<0, 0, Q(1, 5)>> >>
    /\ emitted[2] = << <<0, 0, Q(9, 10)>> >>

\* Two MAX layers that emit different values for one cell.
C3_WitnessMax ==
    /\ lastOp = "step"
    /\ Len(effect.layers) = 2
    /\ effect.layers[1].blend = MAX
    /\ effect.layers[2].blend = MAX
    /\ \E c \in Keys(emitted[1]) \cap Keys(emitted[2]) :
          LastAt(emitted[1], c) /= LastAt(emitted[2], c)

(***************************************************************************)
(* SpecRunner: a script builds an EffectRunner on an effect and calls      *)
(* run(), with or without a frame count (test_text.py, main.py).           *)
(***************************************************************************)
RunnerEffects ==
    BakedConfigs \cup ZigZagConfigs \cup TextConfigs \cup GhostConfigs

RunArgs == {<<>>, <<0>>, <<2>>}

InitRunner ==
    /\ files = DiskFiles
    /\ effect \in RunnerEffects
    /\ prev = effect
    /\ frame = <<>>
    /\ lastOp = "init"
    /\ nsteps = 0
    /\ NoLayered
    /\ runner \in {EffectRunner_init(invert) : invert \in BOOLEAN}
    /\ display = <<>>
    /\ recorder = NoRecorder
    /\ player = <<>>
    /\ playFrame = <<>>
    /\ playCount = 0

RunCall ==
    /\ runner.pc \in {"idle", "returned"}
    /\ \E frames \in RunArgs : runner' = EffectRunner_call(runner, frames)
    /\ lastOp' = "run"
    /\ UNCHANGED <<effect, prev, frame, nsteps, files, calls, emitted, mirror,
                   mirrorFrame, display, recorder, player, playFrame,
                   playCount>>

RunTick ==
    /\ runner.pc = "loop"
    /\ nsteps < MaxRun
    /\ \E t \in {EffectRunner_tick(runner, step(effect), GridW, GridH)} :
           /\ runner' = t.runner
           /\ effect' = t.eff
           /\ frame' = t.frame
           /\ display' = t.display
    /\ prev' = effect
    /\ lastOp' = "step"
    /\ nsteps' = nsteps + 1
    /\ UNCHANGED <<files, calls, emitted, mirror, mirrorFrame, recorder,
                   player, playFrame, playCount>>

NextRunner == RunCall \/ RunTick

SpecRunner == InitRunner /\ [][NextRunner]_vars

\* C4: in a run() called with no frame count, the loop has stopped as soon as
\* a tick leaves effect.is_done() true.
C4_RunStopsOnceDone ==
    (runner.frames = <<>> /\ runner.count > 0 /\ is_done(effect)) =>
        runner.pc = "returned"

(***************************************************************************)
(* SpecRecorder: a script records an effect with an AnimationRecorder,     *)
(* saves the recording and replays the file with a BakedAnimation.         *)
(* The player, when there is one, is [eff |-> the BakedAnimation,          *)
(* recorded |-> self.frames of the recorder when the file was written,     *)
(* exc |-> the exception its last step() raised].                          *)
(***************************************************************************)
RecorderEffects ==
    BakedConfigs
    \cup {ZigZagSweep_init(2, 2, bounce, GridW, GridH) : bounce \in BOOLEAN}
    \cup {PacMan_init(Q(1, 2), QI(0), QI(1), QI(0), QI(1), QI(0), wrap,
                      GridW, GridH) : wrap \in BOOLEAN}
    \cup {Ghost_init(QI(GridW), QI(0), Q(3, 2), GridW, GridH)}
    \cup {TextScroller_init(<<"L", "?", "I">>, <<1>>, 0, QI(2), 1, Q(1, 2),
                            loop, GridW, GridH) : loop \in BOOLEAN}

RecordArgs == {<<>>, <<0>>, <<1>>, <<3>>}

RecordFile == "rec.anim.gz"

InitRecorder ==
    /\ files = DiskFiles
    /\ effect \in RecorderEffects
    /\ prev = effect
    /\ frame = <<>>
    /\ lastOp = "init"
    /\ nsteps = 0
    /\ NoLayered
    /\ runner = NoRunner
    /\ display = <<>>
    /\ recorder = AnimationRecorder_init(25)
    /\ player = <<>>
    /\ playFrame = <<>>
    /\ playCount = 0

RecordCall ==
    /\ recorder.pc \in {"idle", "returned"}
    /\ \E frames \in RecordArgs :
          recorder' = AnimationRecorder_call(recorder, frames)
    /\ effect' = reset(effect)
    /\ prev' = effect
    /\ lastOp' = "reset"
    /\ nsteps' = 0
    /\ UNCHANGED <<frame, files, calls, emitted, mirror, mirrorFrame, runner,
                   display, player, playFrame, playCount>>

RecordTick ==
    /\ recorder.pc = "loop"
    /\ Len(recorder.frames) < MaxRecord
    /\ \E t \in {AnimationRecorder_tick(recorder, step(effect))} :
           /\ recorder' = t.recorder
           /\ effect' = t.eff
           /\ frame' = t.frame
    /\ prev' = effect
    /\ lastOp' = "step"
    /\ nsteps' = nsteps + 1
    /\ UNCHANGED <<files, calls, emitted, mirror, mirrorFrame, runner, display,
                   player, playFrame, playCount>>

Save ==
    /\ recorder.pc \in {"idle", "returned"}
    /\ files' = [f \in DOMAIN files \cup {RecordFile} |->
                    IF f = RecordFile
                    THEN AnimationRecorder_save(recorder, GridW, GridH)
                    ELSE files[f]]
    /\ recorder' = [recorder EXCEPT !.saved = <<recorder.frames>>]
    /\ UNCHANGED <<effect, prev, frame, lastOp, nsteps, calls, emitted, mirror,
                   mirrorFrame, runner, display, player, playFrame, playCount>>

PlayerNew ==
    /\ recorder.pc \in {"idle", "returned"}
    /\ RecordFile \in DOMAIN files
    /\ \E loop \in BOOLEAN :
          player' = [eff |-> BakedAnimation_init(RecordFile, loop),
                     recorded |-> recorder.saved[1],
                     exc |-> ""]
    /\ playFrame' = <<>>
    /\ playCount' = 0
    /\ UNCHANGED <<effect, prev, frame, lastOp, nsteps, files, calls, emitted,
                   mirror, mirrorFrame, runner, display, recorder>>

PlayerStep ==
    /\ player /= <<>>
    /\ player.exc = ""
    /\ playCount < MaxPlay
    /\ \E r \in {step(player.eff)} :
           /\ player' = [player EXCEPT !.eff = r.eff, !.exc = r.exc]
           /\ playFrame' = r.frame
    /\ playCount' = playCount + 1
    /\ UNCHANGED <<effect, prev, frame, lastOp, nsteps, files, calls, emitted,
                   mirror, mirrorFrame, runner, display, recorder>>

NextRecorder == RecordCall \/ RecordTick \/ Save \/ PlayerNew \/ PlayerStep

SpecRecorder == InitRecorder /\ [][NextRecorder]_vars

\* C5: a record() called with no frame count keeps stepping while the effect
\* is not done and returns right after the first step() that leaves
\* is_done() true: that step's frame is the last one in self.frames, and the
\* effect has been stepped exactly `count` times since record() reset it.
C5_RecordStopsAtFirstDone ==
    (recorder.arg = <<>> /\ recorder.pc \in {"loop", "returned"}) =>
        /\ nsteps = recorder.count
        /\ (recorder.pc = "loop" /\ recorder.count > 0) => ~is_done(effect)
        /\ recorder.pc = "returned" =>
              /\ is_done(effect)
              /\ ~is_done(prev)
              /\ lastOp = "step"
              /\ recorder.count >= 1
              /\ recorder.frames /= <<>>
              /\ frame = recorder.frames[Len(recorder.frames)]

\* record() returned after more than one step, the last of them with a
\* frame that is not empty.
C5_Witness ==
    /\ recorder.arg = <<>>
    /\ recorder.pc = "returned"
    /\ recorder.count >= 2
    /\ frame /= <<>>
    /\ is_done(effect)

\* C6: the i-th step() of a BakedAnimation(loop=False) built on a saved
\* recording of N >= 1 frames returns the i-th recorded frame, sample for
\* sample, for every i in 1..N.
C6_ReplayReproducesRecording ==
    (/\ player /= <<>>
     /\ ~player.eff.loop
     /\ playCount \in 1..Len(player.recorded)) =>
        /\ player.exc = ""
        /\ playFrame = player.recorded[playCount]

\* The player has replayed a whole recording of several frames, the last of
\* which holds two samples for one cell.
C6_Witness ==
    /\ player /= <<>>
    /\ ~player.eff.loop
    /\ Len(player.recorded) >= 2
    /\ playCount = Len(player.recorded)
    /\ Len(playFrame) > Cardinality(Keys(playFrame))

(***************************************************************************)
(* SpecComet: one Comet, stepped and reset in any order.  `mirror` keeps   *)
(* the Comet as the constructor left it.                                   *)
(***************************************************************************)
CometConfigs ==
    {Comet_init(x, y, dx, dy, tail, bounce, GridW, GridH) :
        x \in {QI(0), QI(1), Q(2 * GridW - 1, 2)},
        y \in {QI(0), Q(1, 2)},
        dx \in {QI(-1), Q(1, 2), QI(2)},
        dy \in {QI(0), QI(1)},
        tail \in {0, 2},
        bounce \in BOOLEAN}

InitComet ==
    /\ files = DiskFiles
    /\ effect \in CometConfigs
    /\ prev = effect
    /\ frame = <<>>
    /\ lastOp = "init"
    /\ nsteps = 0
    /\ calls = <<>>
    /\ emitted = <<>>
    /\ mirror = effect
    /\ mirrorFrame = <<>>
    /\ NoDrivers

SpecComet == InitComet /\ [][NextEffect]_vars

HeadInGrid(e) ==
    /\ QLe(QI(0), e.x) /\ QLt(e.x, QI(e.width))
    /\ QLe(QI(0), e.y) /\ QLt(e.y, QI(e.height))

\* C11: a step() of a Comet(bounce=True) whose head is inside the grid leaves
\* the head inside the grid, and has negated the velocity component of each
\* axis on which the plain move x + dx (y + dy) would have left the grid.
C11_BounceKeepsHeadInGrid ==
    (/\ effect.kind = "Comet"
     /\ effect.bounce
     /\ lastOp = "step"
     /\ HeadInGrid(prev)) =>
        /\ HeadInGrid(effect)
        /\ Comet_outside(QAdd(prev.x, prev.dx), prev.width) =>
              effect.dx = QMul(prev.dx, QI(-1))
        /\ Comet_outside(QAdd(prev.y, prev.dy), prev.height) =>
              effect.dy = QMul(prev.dy, QI(-1))

\* What the n-th step() of the effect e returns, and the state it leaves.
RECURSIVE Replay(_, _)
Replay(e, n) == IF n = 0 THEN Ret(e, <<>>) ELSE step(Replay(e, n - 1).eff)

\* C12: the k-th step() after a reset() of a Comet(bounce=True) returns the
\* frame that the k-th step() of a Comet freshly constructed from the same
\* arguments returns.
C12_ResetReplaysFreshRun ==
    (/\ effect.kind = "Comet"
     /\ effect.bounce
     /\ lastOp = "step") =>
        frame = Replay(mirror, nsteps).frame

(***************************************************************************)
(* SpecRipple: one WaveRipple, of effects.py or of effects_engine2.py,     *)
(* stepped and reset in any order.                                         *)
(***************************************************************************)
RippleArgs ==
    [cx : {QI(0), QI(1)}, cy : {QI(0), QI(1)}, speed : {Q(3, 4), QI(1)},
     max_radius : {<<>>, <<Q(1, 2)>>, <<QI(2)>>, <<QI(5)>>}]

RippleConfigs ==
    {WaveRipple_init(a.cx, a.cy, a.speed, a.max_radius, GridW, GridH) :
        a \in RippleArgs}
    \cup {effects_engine2_WaveRipple_init(a.cx, a.cy, a.speed, a.max_radius,
                                          GridW, GridH) : a \in RippleArgs}

InitRipple ==
    /\ files = DiskFiles
    /\ effect \in RippleConfigs
    /\ prev = effect
    /\ frame = <<>>
    /\ lastOp = "init"
    /\ nsteps = 0
    /\ NoLayered
    /\ NoDrivers

SpecRipple == InitRipple /\ [][NextEffect]_vars

\* radius > max_radius, for a radius >= 0.
PastMax(e) == QLt(e.max_radius.sq, QMul(e.radius, e.radius))

C13_WitnessExample ==
    /\ effect.kind = "effects_engine2.WaveRipple"
    /\ lastOp = "step"
    /\ effect.speed = QI(1)
    /\ effect._max_radius = <<QI(5)>>
    /\ nsteps = 6
    /\ is_done(effect)

\* C14: a step() of the WaveRipple of effects.py that takes the radius to
\* the maximum radius or beyond leaves is_done() true.
C14_RippleFinishesAtMaxRadius ==
    (/\ effect.kind = "WaveRipple"
     /\ lastOp = "step"
     /\ LET r == QAdd(prev.radius, prev.speed)
        IN  QLe(prev.max_radius.sq, QMul(r, r))) =>
        is_done(effect)

(***************************************************************************)
(* A ScannerSweep stepped and reset (SpecScanner).                         *)
(***************************************************************************)
MaxBounces == 3

ScannerConfigs ==
    {ScannerSweep_init(hz, speed, tl, bounce, GridW, GridH) :
        hz \in BOOLEAN, speed \in {QI(1), Q(3, 2)}, tl \in {0, 2},
        bounce \in BOOLEAN}

InitScanner ==
    /\ effect \in ScannerConfigs
    /\ prev = effect
    /\ frame = <<>>
    /\ lastOp = "init"
    /\ nsteps = 0
    /\ files = DiskFiles
    /\ calls = <<>>
    /\ emitted = <<>>
    /\ NoLayered
    /\ NoDrivers

ScanStep ==
    /\ effect._bounces < MaxBounces
    /\ nsteps < MaxSteps
    /\ \E r \in {step(effect)} :
           /\ effect' = r.eff
           /\ frame' = r.frame
           /\ lastOp' = IF r.exc = "" THEN "step" ELSE r.exc
    /\ prev' = effect
    /\ nsteps' = nsteps + 1
    /\ UNCHANGED <<files, calls, emitted, mirror, mirrorFrame, runner, display,
                   recorder, player, playFrame, playCount>>

NextScanner == ScanStep \/ EffReset

SpecScanner == InitScanner /\ [][NextScanner]_vars

\* The step from prev took the scan position past the far edge of its axis.
PassedFarEdge ==
    /\ lastOp = "step"
    /\ QLt(QI(ScannerSweep_limit(prev)),
           QAdd(prev.pos, QMul(QI(prev.x_direction), prev.speed)))

\* C15: a ScannerSweep with bounce=False is done after the step() in which
\* the scan position passes the far edge of its axis, and a step() never
\* takes it from done to not done.
C15_ScannerDoneAtFarEdge ==
    (effect.kind = "ScannerSweep" /\ ~effect.bounce) =>
        /\ PassedFarEdge => is_done(effect)
        /\ (lastOp = "step" /\ is_done(prev)) => is_done(effect)

(***************************************************************************)
(* A PacManScene stepped and reset (SpecScene).  calls is the log of the   *)
(* eat() calls since construction or the last reset().                     *)
(***************************************************************************)
SceneW == GridW + 4

MaxSceneSteps == 13

ScenePacMen ==
    {PacMan_init(x, QI(0), x_speed, QI(0), QI(1), QI(0), wrap, SceneW, GridH) :
        x \in {QI(-1), QI(0)}, x_speed \in {QI(1), Q(3, 2)}, wrap \in BOOLEAN}
    \cup {PacMan_init(QI(0), QI(0), QI(SceneW + 5), QI(0), QI(1), QI(0), FALSE,
                      SceneW, GridH)}

SceneGhosts == {Ghost_init(QI(-2), QI(0), QI(1), SceneW, GridH)}

SceneConfigs ==
    {PacManScene_init(PelletRow_init(1, SceneW), pacman, ghost) :
        pacman \in ScenePacMen, ghost \in SceneGhosts}

InitScene ==
    /\ effect \in SceneConfigs
    /\ prev = effect
    /\ frame = <<>>
    /\ lastOp = "init"
    /\ nsteps = 0
    /\ files = DiskFiles
    /\ calls = <<>>
    /\ emitted = <<>>
    /\ NoLayered
    /\ NoDrivers

SceneStep ==
    /\ nsteps < MaxSceneSteps
    /\ \E r \in {step(effect)} :
           /\ effect' = r.eff
           /\ frame' = r.frame
           /\ calls' = calls \o r.calls
           /\ emitted' = r.emitted
           /\ lastOp' = IF r.exc = "" THEN "step" ELSE r.exc
    /\ prev' = effect
    /\ nsteps' = nsteps + 1
    /\ UNCHANGED <<files, mirror, mirrorFrame, runner, display, recorder,
                   player, playFrame, playCount>>

SceneReset ==
    /\ effect' = reset(effect)
    /\ prev' = effect
    /\ lastOp' = "reset"
    /\ nsteps' = 0
    /\ calls' = <<>>
    /\ UNCHANGED <<frame, emitted, files, mirror, mirrorFrame, runner, display,
                   recorder, player, playFrame, playCount>>

NextScene == SceneStep \/ SceneReset

SpecScene == InitScene /\ [][NextScene]_vars

\* Pac-Man has wrap=False, moves to the right and has left the display.
PacManLeft ==
    /\ effect.kind = "PacManScene"
    /\ ~effect.pacman.wrap
    /\ QLt(QI(0), effect.pacman.dx)
    /\ effect.pacman.done

\* C16: a PacManScene whose Pac-Man (wrap=False, x_speed > 0) has left the
\* display becomes done under repeated step() calls: a step() that finds
\* Pac-Man gone and leaves him as he was, as every later step() then will,
\* leaves the scene done.
C16_SceneDoneAfterPacManLeaves ==
    (PacManLeft /\ lastOp = "step" /\ prev.pacman = effect.pacman) =>
        is_done(effect)

\* Once Pac-Man has left, a step() of the scene changes neither Pac-Man nor
\* the scene's done flag.
C16_SceneFrozenAfterPacManLeaves ==
    [][(PacManLeft /\ lastOp' = "step") =>
          /\ effect'.pacman = effect.pacman
          /\ effect'.done = effect.done]_vars

\* The columns of the pellet samples of the last scene frame.
PelletColumns == {emitted[1][i][1] : i \in DOMAIN emitted[1]}

\* C17: the frame a PacManScene.step() returns is the pellets' frame, the
\* ghost's and Pac-Man's in that order; the pellets' frame has no sample at
\* column int(pacman.x) for Pac-Man's position after this tick's move, nor at
\* any column eaten since the last reset(), and shows every other pellet.
C17_PelletEatenBeforeFrame ==
    (effect.kind = "PacManScene" /\ lastOp = "step") =>
        /\ frame = emitted[1] \o emitted[2] \o emitted[3]
        /\ QInt(effect.pacman.x) \notin PelletColumns
        /\ \A k \in DOMAIN calls : calls[k].x \notin PelletColumns
        /\ PelletColumns =
              PelletRow_reset(effect.pellets).pellets
                  \ {calls[k].x : k \in DOMAIN calls}

\* A step in which Pac-Man ate a pellet while others were left to show.
C17_Witness ==
    /\ effect.kind = "PacManScene"
    /\ lastOp = "step"
    /\ QInt(effect.pacman.x) \in prev.pellets.pellets
    /\ PelletColumns /= {}

\* A later frame, Pac-Man having moved on from the column he had emptied.
C17_WitnessLater ==
    /\ effect.kind = "PacManScene"
    /\ lastOp = "step"
    /\ \E k \in DOMAIN calls :
          /\ calls[k].x /= QInt(effect.pacman.x)
          /\ calls[k].x \in PelletRow_reset(effect.pellets).pellets

(***************************************************************************)
(* Both runners (SpecRunners): the EffectRunner of runner.py and the one   *)
(* of effects_engine3.py, each driving an effect; display is the sequence  *)
(* of set_pixel calls of the last tick.                                    *)
(***************************************************************************)
Engine3Runners ==
    {effects_engine3_EffectRunner_init(brightness, invert) :
        brightness \in {Q(1, 2), QI(-2)}, invert \in BOOLEAN}

IsEngine3(r) == "brightness" \in DOMAIN r

InitRunners ==
    /\ files = DiskFiles
    /\ effect \in RunnerEffects
    /\ prev = effect
    /\ frame = <<>>
    /\ lastOp = "init"
    /\ nsteps = 0
    /\ NoLayered
    /\ runner \in {EffectRunner_init(invert) : invert \in BOOLEAN}
                  \cup Engine3Runners
    /\ display = <<>>
    /\ recorder = NoRecorder
    /\ player = <<>>
    /\ playFrame = <<>>
    /\ playCount = 0

PackageCall == ~IsEngine3(runner) /\ RunCall

PackageTick == ~IsEngine3(runner) /\ RunTick

Engine3Call ==
    /\ IsEngine3(runner)
    /\ runner.pc \in {"idle", "returned"}
    /\ \E frames \in RunArgs :
          runner' = effects_engine3_EffectRunner_call(runner, frames)
    /\ \E rs \in BOOLEAN :
          /\ effect' = IF rs THEN reset(effect) ELSE effect
          /\ nsteps' = IF rs THEN 0 ELSE nsteps
    /\ lastOp' = "run"
    /\ UNCHANGED <<prev, frame, files, calls, emitted, mirror, mirrorFrame,
                   display, recorder, player, playFrame, playCount>>

Engine3Tick ==
    /\ IsEngine3(runner)
    /\ runner.pc = "loop"
    /\ nsteps < MaxRun
    /\ \E t \in {effects_engine3_EffectRunner_tick(runner, step(effect),
                                                   GridW, GridH)} :
           /\ runner' = t.runner
           /\ effect' = t.eff
           /\ frame' = t.frame
           /\ display' = t.display
    /\ prev' = effect
    /\ lastOp' = "step"
    /\ nsteps' = nsteps + 1
    /\ UNCHANGED <<files, calls, emitted, mirror, mirrorFrame, recorder,
                   player, playFrame, playCount>>

NextRunners == PackageCall \/ PackageTick \/ Engine3Call \/ Engine3Tick

SpecRunners == InitRunners /\ [][NextRunners]_vars

\* The last tick returned from step() and rendered its frame.
Rendered == lastOp = "step" /\ runner.pc \in {"loop", "returned"}

\* The samples of the last frame that lie on the grid, in order.
OnGrid == SelectSeq(frame, LAMBDA p : InGrid(p[1], p[2], GridW, GridH))

\* C18: every set_pixel call of a tick is on the grid with a brightness in
\* [0, 1]; a frame with off-grid samples is rendered without error and its
\* off-grid samples cause no call (runner.py writes each cell once,
\* effects_engine3.py once per on-grid sample).
C18_SetPixelOnGridAndUnit ==
    /\ \A i \in DOMAIN display :
          /\ InGrid(display[i][1], display[i][2], GridW, GridH)
          /\ QLe(QI(0), display[i][3])
          /\ QLe(display[i][3], QI(1))
    /\ Rendered =>
          Len(display) = IF IsEngine3(runner) THEN Len(OnGrid)
                         ELSE GridW * GridH

\* effects_engine3's runner has rendered a frame with an off-grid sample.
C18_Witness ==
    /\ Rendered
    /\ IsEngine3(runner)
    /\ Len(OnGrid) < Len(frame)
    /\ display /= <<>>

\* runner.py's runner has rendered a frame with a sample above 1.
C18_WitnessAboveOne ==
    /\ Rendered
    /\ ~IsEngine3(runner)
    /\ \E i \in DOMAIN OnGrid : QLt(QI(1), OnGrid[i][3])

\* The global brightness scale: 1 where the runner has none.
Scale(r) == IF IsEngine3(r) THEN r.brightness ELSE QI(1)

\* s*b, or 1 - s*b when invert is on; then its absolute value, capped at 1.
Shown(r, b) ==
    LET sb == QMul(Scale(r), b)
        v  == IF r.invert THEN QSub(QI(1), sb) ELSE sb
        a  == IF QLt(v, QI(0)) THEN QSub(QI(0), v) ELSE v
    IN  IF QLt(QI(1), a) THEN QI(1) ELSE a

\* C20: what a runner displays for a sample of raw brightness b is
\* Shown(runner, b): effects_engine3.py calls set_pixel with it for every
\* on-grid sample in order, runner.py writes it to the cell of every on-grid
\* sample (the last sample of a cell counting).
C20_ScaleInvertNormalize ==
    Rendered =>
        IF IsEngine3(runner)
        THEN display = [i \in DOMAIN OnGrid |->
                          <<OnGrid[i][1], OnGrid[i][2],
                            Shown(runner, OnGrid[i][3])>>]
        ELSE \A i \in DOMAIN OnGrid :
                LET c == <<OnGrid[i][1], OnGrid[i][2]>>
                IN  display[c[1] * GridH + c[2] + 1] =
                        <<c[1], c[2], Shown(runner, LastAt(frame, c))>>

\* A scaled, inverted sample: scaling first and inverting first differ.
C20_Witness ==
    /\ Rendered
    /\ IsEngine3(runner)
    /\ runner.invert
    /\ runner.brightness = Q(1, 2)
    /\ OnGrid /= <<>>

\* An inverted sample under runner.py.
C20_WitnessPackage ==
    /\ Rendered
    /\ ~IsEngine3(runner)
    /\ runner.invert
    /\ \E i \in DOMAIN OnGrid : QLt(QI(1), OnGrid[i][3])

\* The cells of the grid in the order run() writes them.
GridCells == Nested(Range(0, GridW - 1), Range(0, GridH - 1))

Brightnesses == {Q(-3, 10), QI(0), Q(1, 5), Q(3, 5), QI(1), Q(17, 10)}

InitHelpers ==
    /\ effect = <<>>
    /\ prev = <<>>
    /\ frame = <<>>
    /\ lastOp = "init"
    /\ nsteps = 0
    /\ files = DiskFiles
    /\ NoLayered
    /\ NoDrivers

BlendCall ==
    /\ \E dst \in Brightnesses, src \in Brightnesses, mode \in BlendMode :
          \/ /\ calls' = << [op |-> "effects.blend", dst |-> dst, src |-> src,
                            mode |-> mode] >>
             /\ emitted' = << blend(dst, src, mode) >>
          \/ /\ calls' = << [op |-> "Core.blend", dst |-> dst, src |-> src,
                            mode |-> mode] >>
             /\ emitted' = << Core_blend(dst, src, mode) >>
    /\ lastOp' = "blend"
    /\ UNCHANGED <<effect, prev, frame, nsteps, files, mirror, mirrorFrame,
                   runner, display, recorder, player, playFrame, playCount>>

Clamp01Call ==
    /\ \E v \in Brightnesses :
          \/ /\ calls' = << [op |-> "runner.clamp01", v |-> v] >>
             /\ emitted' = << clamp01(v) >>
          \/ /\ calls' = << [op |-> "Core.clamp01", v |-> v] >>
             /\ emitted' = << Core_clamp01(v) >>
    /\ lastOp' = "clamp01"
    /\ UNCHANGED <<effect, prev, frame, nsteps, files, mirror, mirrorFrame,
                   runner, display, recorder, player, playFrame, playCount>>

NextHelpers == BlendCall \/ Clamp01Call

SpecHelpers == InitHelpers /\ [][NextHelpers]_vars

\* C21: blend(dst, src, mode) is the larger of dst and src for MAX, the
\* unclamped sum for ADD, (3 dst + src) / 4 for ALPHA_SOFT,
\* (2 dst + 3 src) / 5 for ALPHA_HARD and src for OVERWRITE.
C21_BlendFormulas ==
    lastOp = "blend" =>
        LET c == calls[1]
            r == emitted[1]
            \* r = (a * dst + b * src) / k, cross-multiplied
            Mix(a, b, k) ==
                r.n * k * c.dst.d * c.src.d =
                    (a * c.dst.n * c.src.d + b * c.src.n * c.dst.d) * r.d
        IN  /\ c.mode = MAX =>
                  r \in {c.dst, c.src} /\ QLe(c.dst, r) /\ QLe(c.src, r)
            /\ c.mode = ADD => Mix(1, 1, 1)
            /\ c.mode = ALPHA_SOFT => Mix(3, 1, 4)
            /\ c.mode = ALPHA_HARD => Mix(2, 3, 5)
            /\ c.mode = OVERWRITE => r = c.src

\* An ADD whose sum is above 1.
C21_Witness ==
    /\ lastOp = "blend"
    /\ calls[1].mode = ADD
    /\ calls[1].op = "effects.blend"
    /\ QLt(QI(1), emitted[1])

\* blend(0.2, 0.6, ALPHA_SOFT) is 0.3.
C21_WitnessSoft ==
    /\ lastOp = "blend"
    /\ calls[1] = [op |-> "Core.blend", dst |-> Q(1, 5), src |-> Q(3, 5),
                   mode |-> ALPHA_SOFT]
    /\ emitted[1] = Q(3, 10)

\* C22: clamp01(v) is |v| capped at 1, so it lies in [0, 1]; clamp01(-0.3) is
\* 0.3, clamp01(1.7) is 1 and clamp01(0) is 0.
C22_Clamp01IsCappedMagnitude ==
    lastOp = "clamp01" =>
        LET v == calls[1].v
            r == emitted[1]
            mag == IF v.n < 0 THEN [n |-> -v.n, d |-> v.d] ELSE v
        IN  /\ r = IF mag.n > mag.d THEN QI(1) ELSE mag
            /\ 0 <= r.n /\ r.n <= r.d
            /\ v = Q(-3, 10) => r = Q(3, 10)
            /\ v = Q(17, 10) => r = QI(1)
            /\ v = QI(0) => r = QI(0)

\* clamp01(-0.3) has returned 0.3.
C22_Witness ==
    /\ lastOp = "clamp01"
    /\ calls[1] = [op |-> "runner.clamp01", v |-> Q(-3, 10)]
    /\ emitted[1] = Q(3, 10)

(***************************************************************************)
(* BakedAnimation on containers of several versions (SpecVersions).        *)
(***************************************************************************)
Versions == {0, 1, 2, 3}

VersionedContainer(version, frames) ==
    json_dump([version |-> version, width |-> GridW, height |-> GridH,
               fps |-> 25, frame_count |-> Len(frames), frames |-> frames])

VersionedFiles(version) ==
    [f \in {"one.anim.gz", "two.anim.gz", "three.anim.gz"} |->
        IF f = "one.anim.gz" THEN VersionedContainer(version, Clip1)
        ELSE IF f = "two.anim.gz" THEN VersionedContainer(version, Clip2)
        ELSE VersionedContainer(version, Clip3)]

InitVersions ==
    /\ files \in {VersionedFiles(version) : version \in Versions}
    /\ effect \in {BakedAnimation_init(f, loop) :
                      f \in DOMAIN files, loop \in BOOLEAN}
    /\ prev = effect
    /\ frame = <<>>
    /\ lastOp = "init"
    /\ nsteps = 0
    /\ NoLayered
    /\ NoDrivers

SpecVersions == InitVersions /\ [][NextEffect]_vars

\* The version field of the container the BakedAnimation was loaded from.
LoadedVersion == json_load(files[effect.filename]).version

\* C23: a container whose version is not 1 is not loaded: no construction,
\* reset() or step() of a BakedAnimation on it completes.
C23_UnknownVersionFailsAtLoad ==
    (effect.kind = "BakedAnimation" /\ LoadedVersion /= 1) =>
        lastOp \notin {"init", "reset", "step"}

\* C24: when a record(N) has returned, the effect was reset once at its start
\* and stepped N times since, and self.frames holds exactly N frames, the
\* number save() then writes as frame_count.
C24_RecordHoldsExactlyNFrames ==
    (recorder.pc = "returned" /\ recorder.arg /= <<>>) =>
        /\ nsteps = recorder.arg[1]
        /\ Len(recorder.frames) = recorder.arg[1]
        /\ AnimationRecorder_save(recorder, GridW, GridH).obj.frame_count.num
              = recorder.arg[1]

(***************************************************************************)
(* A Sparkle stepped and reset (SpecSparkle).  The random draws considered *)
(* are some of the values randint(0, 50) and randint(10, 50) can return.   *)
(***************************************************************************)
SparkleCounts == {0, 10, 11, 50}

SparkleSpeeds == {10, 50}

SparkleFixed == {<<>>, <<3>>, <<50>>}

InitSparkle ==
    /\ effect \in {Sparkle_init(0, 0, fixed, count, speed) :
                      fixed \in SparkleFixed, count \in SparkleCounts,
                      speed \in SparkleSpeeds}
    /\ prev = effect
    /\ frame = <<>>
    /\ lastOp = "init"
    /\ nsteps = 0
    /\ files = DiskFiles
    /\ NoLayered
    /\ NoDrivers

SparkleStep ==
    /\ nsteps < MaxSteps
    /\ \E count \in SparkleCounts, speed \in SparkleSpeeds :
          \E r \in {Sparkle_step(effect, count, speed)} :
             /\ effect' = r.eff
             /\ frame' = r.frame
    /\ prev' = effect
    /\ lastOp' = "step"
    /\ nsteps' = nsteps + 1
    /\ UNCHANGED <<files, calls, emitted, mirror, mirrorFrame, runner, display,
                   recorder, player, playFrame, playCount>>

SparkleReset ==
    /\ \E count \in SparkleCounts, speed \in SparkleSpeeds :
          effect' = Sparkle_reset(effect, count, speed)
    /\ prev' = effect
    /\ lastOp' = "reset"
    /\ nsteps' = 0
    /\ UNCHANGED <<frame, files, calls, emitted, mirror, mirrorFrame, runner,
                   display, recorder, player, playFrame, playCount>>

NextSparkle == SparkleStep \/ SparkleReset

SpecSparkle == InitSparkle /\ [][NextSparkle]_vars

\* C25: after construction, every reset() and every step() of a Sparkle,
\* 0 <= step_count <= max_steps, and the phase t of the brightness
\* sin(t * pi) a step() returned is in [0, 1].
C25_SparklePhaseInRange ==
    effect.kind = "Sparkle" =>
        /\ 0 <= effect.step_count
        /\ effect.step_count <= effect.max_steps
        /\ lastOp = "step" =>
              LET t == frame[1][3].sin_pi
              IN  QLe(QI(0), t) /\ QLe(t, QI(1))

(***************************************************************************)
(* A Compositor of effects_engine3.py stepped by its owner, who also sets  *)
(* the visible attribute of its layers (SpecCompositor).                   *)
(***************************************************************************)
CompositorLayers ==
    {Layer_init(effects_engine3_ZigZagSweep_init(1, 2, FALSE), MAX, QI(1), TRUE),
     Layer_init(effects_engine3_ZigZagSweep_init(2, 1, FALSE), ADD, Q(1, 2), FALSE),
     Layer_init(effects_engine3_ZigZagSweep_init(1, 1, TRUE), SCREEN, QI(1), TRUE),
     Layer_init(StaticPixels_init(<< <<0, 0, QI(1)>>, <<1, 1, Q(1, 2)>> >>),
                ALPHA, Q(1, 2), TRUE),
     Layer_init(StaticPixels_init(<< <<1, 0, Q(1, 2)>>, <<0, 0, QI(0)>> >>),
                REPLACE, QI(1), FALSE),
     Layer_init(StaticPixels_init(<< <<1, 0, Q(1, 2)>> >>), MULTIPLY,
                QI(1), TRUE)}

InitCompositor ==
    /\ effect \in {Compositor_init(<<a>>) : a \in CompositorLayers}
          \cup {Compositor_init(<<a, b>>) : a, b \in CompositorLayers}
    /\ prev = effect
    /\ frame = <<>>
    /\ lastOp = "init"
    /\ nsteps = 0
    /\ files = DiskFiles
    /\ NoLayered
    /\ NoDrivers

CompositorStep ==
    /\ nsteps < MaxSteps
    /\ \E r \in {Compositor_step(effect)} :
          /\ effect' = r.eff
          /\ frame' = r.frame
          /\ calls' = r.calls
          /\ emitted' = r.emitted
    /\ prev' = effect
    /\ lastOp' = "step"
    /\ nsteps' = nsteps + 1
    /\ UNCHANGED <<files, mirror, mirrorFrame, runner, display, recorder,
                   player, playFrame, playCount>>

\* layer.visible = v, set by the owner of the compositor between two ticks.
SetVisible ==
    /\ \E i \in DOMAIN effect.layers, v \in BOOLEAN :
          /\ effect.layers[i].visible /= v
          /\ effect' = [effect EXCEPT !.layers[i].visible = v]
    /\ prev' = effect
    /\ lastOp' = "visible"
    /\ UNCHANGED <<frame, nsteps, files, calls, emitted, mirror, mirrorFrame,
                   runner, display, recorder, player, playFrame, playCount>>

NextCompositor == CompositorStep \/ SetVisible

SpecCompositor == InitCompositor /\ [][NextCompositor]_vars

\* C26: after Compositor.step(), a layer that had visible=False returned no
\* sample for the tick and its effect is in the state it had before the
\* call, whatever that state was (a done effect included).
C26_InvisibleLayerUntouched ==
    lastOp = "step" =>
        \A i \in DOMAIN prev.layers :
            ~prev.layers[i].visible =>
                /\ emitted[i] = <<>>
                /\ effect.layers[i].effect = prev.layers[i].effect

(***************************************************************************)
(* Drawing code that opens, nests and leaves capture_pixels() blocks and   *)
(* calls scrollphathd.set_pixel (SpecCapture).  mirror is the harness's    *)
(* own note of the function that was installed when each active block was  *)
(* entered; mirrorFrame is the note for the block that was left last.      *)
(***************************************************************************)
MaxNest == 2
MaxEnters == 3
MaxPixelCalls == 3

PixelArgs == {<<0, 0, QI(1)>>, <<0, 0, Q(1, 2)>>, <<1, 0, QI(0)>>}

InitCapture ==
    /\ effect = scrollphathd_init
    /\ prev = effect
    /\ frame = <<>>
    /\ lastOp = "init"
    /\ nsteps = 0
    /\ files = DiskFiles
    /\ NoLayered
    /\ NoDrivers

CaptureEnter ==
    /\ ~effect.raising
    /\ Len(effect.blocks) < MaxNest
    /\ effect.serial < MaxEnters
    /\ effect' = capture_pixels_enter(effect)
    /\ prev' = effect
    /\ mirror' = Append(mirror, effect.set_pixel)
    /\ lastOp' = "enter"
    /\ UNCHANGED <<frame, nsteps, files, calls, emitted, mirrorFrame, runner,
                   display, recorder, player, playFrame, playCount>>

CaptureSetPixel ==
    /\ ~effect.raising
    /\ nsteps < MaxPixelCalls
    /\ \E a \in PixelArgs :
          /\ effect' = scrollphathd_set_pixel(effect, a[1], a[2], a[3])
          /\ calls' = <<a>>
    /\ prev' = effect
    /\ lastOp' = "set_pixel"
    /\ nsteps' = nsteps + 1
    /\ UNCHANGED <<frame, files, emitted, mirror, mirrorFrame, runner, display,
                   recorder, player, playFrame, playCount>>

\* The body of the innermost block ends (raised = FALSE), raises, or an
\* exception raised further in passes through it (raised = TRUE).
CaptureExit ==
    /\ effect.blocks /= <<>>
    /\ \E raised \in BOOLEAN :
          /\ effect.raising => raised
          /\ effect' = capture_pixels_exit(effect, raised)
          /\ lastOp' = IF raised THEN "raise" ELSE "exit"
    /\ prev' = effect
    /\ frame' = effect.blocks[Len(effect.blocks)].captured
    /\ mirror' = SubSeq(mirror, 1, Len(mirror) - 1)
    /\ mirrorFrame' = mirror[Len(mirror)]
    /\ UNCHANGED <<nsteps, files, calls, emitted, runner, display, recorder,
                   player, playFrame, playCount>>

\* An except clause around a block catches the exception.
CaptureCatch ==
    /\ effect.raising
    /\ effect' = [effect EXCEPT !.raising = FALSE]
    /\ prev' = effect
    /\ lastOp' = "except"
    /\ UNCHANGED <<frame, nsteps, files, calls, emitted, mirror, mirrorFrame,
                   runner, display, recorder, player, playFrame, playCount>>

NextCapture == CaptureEnter \/ CaptureSetPixel \/ CaptureExit \/ CaptureCatch

SpecCapture == InitCapture /\ [][NextCapture]_vars

\* C27: when a capture_pixels() block has been left, normally or by an
\* exception, scrollphathd.set_pixel is the function that was installed when
\* it was entered (nested blocks included: with no block active it is the
\* display's own function); a set_pixel call made while a block is active
\* does not reach the display's own function.
C27_CaptureRestoresSetPixel ==
    /\ lastOp \in {"exit", "raise"} => effect.set_pixel = mirrorFrame
    /\ effect.blocks = <<>> => effect.set_pixel = real_set_pixel
    /\ (lastOp = "set_pixel" /\ prev.blocks /= <<>>) => effect.real = prev.real

\* An inner block was left by an exception while an outer block was active,
\* after a call made inside it was captured.
C27_Witness ==
    /\ lastOp = "raise"
    /\ Len(effect.blocks) = 1
    /\ frame /= <<>>
    /\ effect.set_pixel = <<"fake_set_pixel", effect.blocks[1].id>>

(***************************************************************************)
(* A TextScroller stepped and reset by a test (SpecText), over texts with  *)
(* and without glyphs, start columns left of, inside and at the right edge *)
(* of the viewport, rows above, inside and below it, and speeds of either  *)
(* sign.                                                                   *)
(***************************************************************************)
ScrollerConfigs ==
    {TextScroller_init(text, x_start, y_pos, speed, 1, QI(1), loop, GridW, GridH) :
        text \in {<<"I">>, <<"L", "?", "I">>, <<"?">>},
        x_start \in {<<>>, <<1>>, <<-3>>},
        y_pos \in {-1, 0, 1},
        speed \in {QI(-1), QI(0), Q(1, 2), Q(3, 2), QI(2)},
        loop \in BOOLEAN}

InitText ==
    /\ effect \in ScrollerConfigs
    /\ prev = effect
    /\ frame = <<>>
    /\ lastOp = "init"
    /\ nsteps = 0
    /\ files = DiskFiles
    /\ NoLayered
    /\ NoDrivers

TextStep ==
    /\ nsteps < MaxSteps
    /\ \E r \in {TextScroller_step(effect)} :
          /\ effect' = r.eff
          /\ frame' = r.frame
    /\ prev' = effect
    /\ lastOp' = "step"
    /\ nsteps' = nsteps + 1
    /\ UNCHANGED <<files, calls, emitted, mirror, mirrorFrame, runner, display,
                   recorder, player, playFrame, playCount>>

TextReset ==
    /\ effect' = TextScroller_reset(effect)
    /\ prev' = effect
    /\ lastOp' = "reset"
    /\ nsteps' = 0
    /\ UNCHANGED <<frame, files, calls, emitted, mirror, mirrorFrame, runner,
                   display, recorder, player, playFrame, playCount>>

NextText == TextStep \/ TextReset

SpecText == InitText /\ [][NextText]_vars

\* x_start + text_width, the offset past which the text has left the viewport
ScrollEnd == QI(effect.x_start + effect.text_width)

\* C28: a TextScroller with speed > 0 and loop=False is done after finitely
\* many steps, at the first step after which scroll_offset is greater than
\* x_start + text_width: a step from a state that is not done sets done
\* exactly when the offset it leaves is past that bound, and as long as the
\* scroller is not done its offset is speed times the number of steps taken,
\* which is at most the bound, so at most (x_start + text_width) / speed
\* steps can leave it not done.
C28_OneShotScrollerFinishes ==
    (QLt(QI(0), effect.speed) /\ ~effect.loop) =>
        /\ (lastOp = "step" /\ ~prev.done) =>
              (effect.done <=> QLt(ScrollEnd, effect.scroll_offset))
        /\ ~effect.done =>
              /\ effect.scroll_offset = QMul(QI(nsteps), effect.speed)
              /\ nsteps > 0 => QLe(effect.scroll_offset, ScrollEnd)

\* A one-shot scroller has become done at its third step or later.
C28_Witness ==
    /\ QLt(QI(0), effect.speed) /\ ~effect.loop
    /\ lastOp = "step" /\ ~prev.done /\ effect.done
    /\ nsteps >= 3

\* The step that leaves the offset exactly at the bound does not finish.
C28_WitnessAtBound ==
    /\ QLt(QI(0), effect.speed) /\ ~effect.loop
    /\ lastOp = "step" /\ ~effect.done /\ nsteps > 0
    /\ effect.scroll_offset = ScrollEnd

\* C29: a TextScroller with loop=True is never done, and a step with
\* speed > 0 that takes scroll_offset past x_start + text_width leaves it
\* at 0 (any other step leaves it at the old offset plus speed).
C29_LoopingScrollerNeverDone ==
    effect.loop =>
        /\ ~effect.done
        /\ (lastOp = "step" /\ QLt(QI(0), effect.speed)) =>
              LET off == QAdd(prev.scroll_offset, effect.speed)
              IN  effect.scroll_offset =
                      IF QLt(ScrollEnd, off) THEN QI(0) ELSE off

\* A looping scroller has wrapped to 0 at its third step or later and has
\* been stepped on from there.
C29_Witness ==
    /\ effect.loop /\ lastOp = "step" /\ nsteps >= 4
    /\ prev.scroll_offset = QI(0)
    /\ effect.scroll_offset = effect.speed
    /\ QLt(QI(0), effect.speed)

\* C30: every sample a TextScroller.step() returns lies in the viewport.
C30_SamplesInsideViewport ==
    lastOp = "step" =>
        \A i \in DOMAIN frame :
            /\ 0 <= frame[i][1] /\ frame[i][1] < GridW
            /\ 0 <= frame[i][2] /\ frame[i][2] < GridH

\* A step returned some of the text's pixels and left out others.
C30_Witness ==
    /\ lastOp = "step"
    /\ frame /= <<>>
    /\ Len(frame) < Len(effect.text_pixels)

(***************************************************************************)
(* Two equally configured SparkleFields, constructed, stepped and reset    *)
(* together (SpecField).  effect takes its random values from a few of the *)
(* orders shuffle() can leave and a few of the values randint() can        *)
(* return; mirror is the run in which shuffle() leaves the list as it was  *)
(* and every randint() returns its lower limit.                            *)
(***************************************************************************)
MaxFieldSteps == 4

all_positions == Nested(Range(0, GridW - 1), Range(0, GridH - 1))

Shuffles ==
    {all_positions, Reverse(all_positions),
     Tail(all_positions) \o <<Head(all_positions)>>}

\* randint(lo, hi) for every pool entry: all lo, all hi, or alternating.
PoolSpeeds(range) ==
    {[i \in DOMAIN all_positions |-> range[1]],
     [i \in DOMAIN all_positions |-> range[2]],
     [i \in DOMAIN all_positions |-> range[1 + (i % 2)]]}

FieldCounts == {0, 5}

FieldArgs ==
    {[density |-> d, speed_range |-> <<2, 3>>] :
        d \in {0, 2, GridW * GridH + 1}}

InitField ==
    /\ \E a \in FieldArgs :
          /\ \E positions \in Shuffles, speeds \in PoolSpeeds(a.speed_range) :
                effect = SparkleField_init(a.density, a.speed_range, GridW,
                                           GridH, positions, speeds)
          /\ mirror = SparkleField_init(a.density, a.speed_range, GridW, GridH,
                          all_positions,
                          [i \in DOMAIN all_positions |-> a.speed_range[1]])
    /\ prev = effect
    /\ frame = <<>>
    /\ mirrorFrame = <<>>
    /\ lastOp = "init"
    /\ nsteps = 0
    /\ files = DiskFiles
    /\ calls = <<>>
    /\ emitted = <<>>
    /\ NoDrivers

FieldStep ==
    /\ nsteps < MaxFieldSteps
    /\ \E first \in FieldCounts, again \in FieldCounts :
          \E r \in {SparkleField_step(effect, first, again)} :
             /\ effect' = r.eff
             /\ frame' = r.frame
    /\ \E r \in {SparkleField_step(mirror, 0, 0)} :
          /\ mirror' = r.eff
          /\ mirrorFrame' = r.frame
    /\ prev' = effect
    /\ lastOp' = "step"
    /\ nsteps' = nsteps + 1
    /\ UNCHANGED <<files, calls, emitted, runner, display, recorder, player,
                   playFrame, playCount>>

FieldReset ==
    /\ \E positions \in Shuffles, speeds \in PoolSpeeds(effect.speed_range) :
          effect' = SparkleField_reset(effect, positions, speeds)
    /\ mirror' = SparkleField_reset(mirror, all_positions,
                     [i \in DOMAIN all_positions |-> mirror.speed_range[1]])
    /\ prev' = effect
    /\ lastOp' = "reset"
    /\ nsteps' = 0
    /\ UNCHANGED <<frame, mirrorFrame, files, calls, emitted, runner, display,
                   recorder, player, playFrame, playCount>>

NextField == FieldStep \/ FieldReset

SpecField == InitField /\ [][NextField]_vars

\* C31: two equally configured SparkleFields that were reset and then
\* stepped the same number of times have returned the same frame.
C31_SparkleFieldDeterministic ==
    lastOp = "step" => frame = mirrorFrame

\* C37: a SparkleField holds at most density active sparkles, has taken at
\* most width * height entries from its pool, and its active sparkles sit
\* on pairwise distinct cells of the grid; after reset() it holds none and
\* pool_index is 0.
C37_SparkleFieldBounds ==
    LET active == effect.active_sparkles
    IN  /\ Len(active) <= effect.density
        /\ effect.pool_index <= GridW * GridH
        /\ \A i \in DOMAIN active :
              /\ 0 <= active[i].x /\ active[i].x < GridW
              /\ 0 <= active[i].y /\ active[i].y < GridH
              /\ \A j \in DOMAIN active :
                    (active[i].x = active[j].x /\ active[i].y = active[j].y)
                        => i = j
        /\ lastOp = "reset" => (active = <<>> /\ effect.pool_index = 0)

\* A field that is full at its density while pool entries remain.
C37_Witness ==
    /\ lastOp = "step"
    /\ Len(effect.active_sparkles) = effect.density
    /\ effect.density > 0
    /\ effect.pool_index < Len(effect.position_pool)

\* A field whose pool is used up below its density.
C37_WitnessPoolUsedUp ==
    /\ lastOp = "step"
    /\ effect.pool_index = GridW * GridH
    /\ Len(effect.active_sparkles) < effect.density

\* A field reset after it had activated sparkles.
C37_WitnessReset ==
    /\ lastOp = "reset"
    /\ prev.active_sparkles /= <<>>

(***************************************************************************)
(* An EffectRunner without inversion driving a bouncing Comet that has a   *)
(* tail (SpecCometRunner).                                                 *)
(***************************************************************************)
InitCometRunner ==
    /\ files = DiskFiles
    /\ effect \in {c \in CometConfigs : c.bounce /\ c.tail_length > 0}
    /\ prev = effect
    /\ frame = <<>>
    /\ lastOp = "init"
    /\ nsteps = 0
    /\ NoLayered
    /\ runner = EffectRunner_init(FALSE)
    /\ display = <<>>
    /\ recorder = NoRecorder
    /\ player = <<>>
    /\ playFrame = <<>>
    /\ playCount = 0

SpecCometRunner == InitCometRunner /\ [][NextRunner]_vars

\* The cell of the comet's head: (int(round(x)), int(round(y))).
CometHead == <<QRound(effect.x), QRound(effect.y)>>

\* C32: in every frame an EffectRunner displays for a bouncing Comet, the
\* cell holding the comet's head is written with brightness 1.0, and no
\* cell is written with more.
C32_CometHeadBrightest ==
    (lastOp = "step" /\ InGrid(CometHead[1], CometHead[2], GridW, GridH)) =>
        \A i \in DOMAIN display :
            /\ <<display[i][1], display[i][2]>> = CometHead
                  => display[i][3] = QI(1)
            /\ QLe(display[i][3], QI(1))

\* C33: a BakedAnimation replaying a file an AnimationRecorder wrote never
\* reads self.frames outside 0 <= index < len(frames): no step() of the
\* player has raised IndexError (SpecRecorder).
C33_PlaybackCursorInRange ==
    player /= <<>> => player.exc /= "IndexError"

(***************************************************************************)
(* Two equally configured EffectRunners ticking together, one on an effect *)
(* and one on LayeredEffect(Layer(effect, BlendMode.MAX)) built on an      *)
(* equal effect (SpecWrapper).  runner is the state the two runners share, *)
(* display the set_pixel calls of the first; mirror is the LayeredEffect,  *)
(* mirrorFrame what its last step() returned and emitted what its layer    *)
(* returned to it.                                                         *)
(***************************************************************************)
WrappedEffects == BakedConfigs \cup ZigZagConfigs

InitWrapper ==
    /\ files = DiskFiles
    /\ effect \in WrappedEffects
    /\ mirror = LayeredEffect_init(<<Layer(effect, MAX)>>)
    /\ prev = effect
    /\ frame = <<>>
    /\ mirrorFrame = <<>>
    /\ lastOp = "init"
    /\ nsteps = 0
    /\ calls = <<>>
    /\ emitted = <<>>
    /\ runner \in {EffectRunner_init(invert) : invert \in BOOLEAN}
    /\ display = <<>>
    /\ recorder = NoRecorder
    /\ player = <<>>
    /\ playFrame = <<>>
    /\ playCount = 0

WrapTick ==
    /\ runner.pc = "loop"
    /\ nsteps < MaxRun
    /\ \E t \in {EffectRunner_tick(runner, step(effect), GridW, GridH)},
          m \in {step(mirror)} :
           /\ runner' = t.runner
           /\ effect' = t.eff
           /\ frame' = t.frame
           /\ display' = t.display
           /\ mirror' = m.eff
           /\ mirrorFrame' = m.frame
           /\ calls' = m.calls
           /\ emitted' = m.emitted
    /\ prev' = effect
    /\ lastOp' = "step"
    /\ nsteps' = nsteps + 1
    /\ UNCHANGED <<files, recorder, player, playFrame, playCount>>

NextWrapper == RunCall \/ WrapTick

SpecWrapper == InitWrapper /\ [][NextWrapper]_vars

\* The frame f has at most one sample for each cell.
OneSamplePerCell(f) ==
    \A i, j \in DOMAIN f : (f[i][1] = f[j][1] /\ f[i][2] = f[j][2]) => i = j

\* C34: when the effect and the wrapped effect have emitted the same frame,
\* with at most one sample per cell, the runner of the wrapper writes every
\* cell with the brightness the runner of the bare effect writes.
C34_SingleMaxLayerTransparent ==
    (lastOp = "step" /\ emitted[1] = frame /\ OneSamplePerCell(frame)) =>
        EffectRunner_render(runner, mirrorFrame, GridW, GridH) = display

(***************************************************************************)
(* A ZigZagSweep on grids of every size up to GridW x GridH, stepped and   *)
(* reset by a test (SpecZigZag).                                           *)
(***************************************************************************)
SweepConfigs ==
    {ZigZagSweep_init(speed, trail, bounce, w, h) :
        speed \in {1, 2}, trail \in {0, 2}, bounce \in BOOLEAN,
        w \in 1..GridW, h \in 1..GridH}

InitZigZag ==
    /\ effect \in SweepConfigs
    /\ prev = effect
    /\ frame = <<>>
    /\ lastOp = "init"
    /\ nsteps = 0
    /\ files = DiskFiles
    /\ NoLayered
    /\ NoDrivers

ZigZagStep ==
    /\ nsteps < MaxSteps
    /\ \E r \in {ZigZagSweep_step(effect)} :
          /\ effect' = r.eff
          /\ frame' = r.frame
    /\ prev' = effect
    /\ lastOp' = "step"
    /\ nsteps' = nsteps + 1
    /\ UNCHANGED <<files, calls, emitted, mirror, mirrorFrame, runner, display,
                   recorder, player, playFrame, playCount>>

ZigZagReset ==
    /\ effect' = ZigZagSweep_reset(effect)
    /\ prev' = effect
    /\ lastOp' = "reset"
    /\ nsteps' = 0
    /\ UNCHANGED <<frame, files, calls, emitted, mirror, mirrorFrame, runner,
                   display, recorder, player, playFrame, playCount>>

NextZigZag == ZigZagStep \/ ZigZagReset

SpecZigZag == InitZigZag /\ [][NextZigZag]_vars

\* C35: every sample a ZigZagSweep.step() returns lies on the sweep's grid,
\* the frame of the step that sets done included.
C35_SweepSamplesOnGrid ==
    lastOp = "step" =>
        \A i \in DOMAIN frame :
            /\ 0 <= frame[i][1] /\ frame[i][1] < effect.width
            /\ 0 <= frame[i][2] /\ frame[i][2] < effect.height

\* C36: a ZigZagSweep with speed 1 and bounce=False is done exactly from the
\* (width * height)-th step() after reset on; until then the row index is
\* the number of completed rows, steps \div width, and the horizontal
\* direction is +1 on even rows and -1 on odd rows, and done comes with the
\* row index at height.  With bounce=True it is never done.
C36_SweepDoneAfterWidthTimesHeight ==
    /\ (effect.speed = 1 /\ ~effect.bounce) =>
          /\ effect.done <=> nsteps >= effect.width * effect.height
          /\ ~effect.done =>
                /\ effect.row = nsteps \div effect.width
                /\ effect.x_direction = IF effect.row % 2 = 0 THEN 1 ELSE -1
          /\ effect.done => effect.row = effect.height
    /\ effect.bounce => ~effect.done

\* A sweep of speed 1 without bounce on the largest grid has become done.
C36_Witness ==
    /\ effect.speed = 1 /\ ~effect.bounce
    /\ effect.width = GridW /\ effect.height = GridH /\ GridW > 1
    /\ lastOp = "step" /\ ~prev.done /\ effect.done
    /\ nsteps = GridW * GridH

\* A bouncing sweep has turned back at the bottom row.
C36_WitnessBounce ==
    /\ effect.bounce /\ effect.y_direction = -1 /\ lastOp = "step"

(***************************************************************************)
(* A PacManScene that is stepped some number of times and then reset, next *)
(* to a scene constructed from equal children at the time of the reset;    *)
(* from there the two are stepped together (SpecSceneReset).  effect is    *)
(* the first scene and mirror the second.                                  *)
(***************************************************************************)
InitSceneReset ==
    /\ effect \in SceneConfigs
    /\ mirror = effect
    /\ prev = effect
    /\ frame = <<>>
    /\ mirrorFrame = <<>>
    /\ lastOp = "init"
    /\ nsteps = 0
    /\ files = DiskFiles
    /\ calls = <<>>
    /\ emitted = <<>>
    /\ NoDrivers

\* scene.step() before the second scene exists
SceneStepAlone ==
    /\ lastOp \in {"init", "step alone"}
    /\ nsteps < MaxSceneSteps
    /\ \E r \in {step(effect)} :
          /\ effect' = r.eff
          /\ frame' = r.frame
    /\ prev' = effect
    /\ lastOp' = "step alone"
    /\ nsteps' = nsteps + 1
    /\ UNCHANGED <<mirror, mirrorFrame, files, calls, emitted, runner, display,
                   recorder, player, playFrame, playCount>>

\* scene.reset(); the second scene is constructed
SceneResetThen ==
    /\ lastOp \in {"init", "step alone"}
    /\ effect' = reset(effect)
    /\ prev' = effect
    /\ lastOp' = "reset"
    /\ nsteps' = 0
    /\ UNCHANGED <<frame, mirror, mirrorFrame, files, calls, emitted, runner,
                   display, recorder, player, playFrame, playCount>>

\* scene.step() and a step() of the second scene
SceneStepBoth ==
    /\ lastOp \in {"reset", "step"}
    /\ nsteps < MaxSceneSteps
    /\ \E r \in {step(effect)}, m \in {step(mirror)} :
          /\ effect' = r.eff
          /\ frame' = r.frame
          /\ mirror' = m.eff
          /\ mirrorFrame' = m.frame
    /\ prev' = effect
    /\ lastOp' = "step"
    /\ nsteps' = nsteps + 1
    /\ UNCHANGED <<files, calls, emitted, runner, display, recorder, player,
                   playFrame, playCount>>

NextSceneReset == SceneStepAlone \/ SceneResetThen \/ SceneStepBoth

SpecSceneReset == InitSceneReset /\ [][NextSceneReset]_vars

\* C38: right after PacManScene.reset() every pellet is back (the columns
\* 0, 3, 6, ... below width), Pac-Man and the ghost are at their start
\* positions and the scene is not done; from then on each step() returns
\* the frame the same step() of a freshly constructed scene returns.
C38_SceneResetRestoresChildren ==
    /\ lastOp = "reset" =>
          /\ effect.pellets.pellets
                = {x \in 0..(effect.pellets.width - 1) : x % 3 = 0}
          /\ effect.pacman.x = effect.pacman.start_x
          /\ effect.pacman.y = effect.pacman.start_y
          /\ effect.ghost.x = effect.ghost.start_x
          /\ ~effect.done /\ ~effect.pacman.done /\ ~effect.ghost.done
    /\ lastOp = "step" =>
          /\ frame = mirrorFrame
          /\ effect.done = mirror.done

\* A reset of a scene whose Pac-Man had finished, whose ghost had moved and
\* which had lost a pellet.
C38_Witness ==
    /\ lastOp = "reset"
    /\ prev.pacman.done
    /\ prev.ghost.x /= prev.ghost.start_x
    /\ prev.pellets.pellets /= effect.pellets.pellets

\* A reset scene has been stepped twice next to the fresh one and both
\* returned a frame with samples.
C38_WitnessStepped ==
    /\ lastOp = "step"
    /\ nsteps = 2
    /\ frame /= <<>>
    /\ Cardinality(effect.pellets.pellets) >= 2

====
